---- MODULE Spec2Model ----
(***************************************************************************)
(* A model of the academic-searcher merge / dedupe / ranking pipeline:     *)
(*   src/src/search_sources.py  search_all_sources (the fetch fan-in)      *)
(*   src/src/app_utils.py       normalisers, merge_result_rows,            *)
(*                              deduplicate_results, prepare_dataframe     *)
(*   src/app.py                 main (filters) and apply_sort              *)
(*                                                                         *)
(* Python strings are sequences of one-character strings, so that the      *)
(* conversions (clean_text, normalize_doi, title_fingerprint, the "|"      *)
(* split of Source) are computed as the code computes them.  Python values *)
(* of a row dict are tagged records: PyNone, PyStr(s), PyInt(n), PyBool(b).*)
(*                                                                         *)
(* A local of the code that is read several times is a parameter of a      *)
(* helper operator (for `x = e; use(x, x)`: Use(e) with Use(x) == ...), so *)
(* that its expression is written, and evaluated, once.                    *)
(***************************************************************************)
EXTENDS Integers, Sequences, FiniteSets, TLC

(***************************************************************************)
(* Characters and strings                                                  *)
(***************************************************************************)
Lowers == <<"a","b","c","d","e","f","g","h","i","j","k","l","m",
            "n","o","p","q","r","s","t","u","v","w","x","y","z">>
Uppers == <<"A","B","C","D","E","F","G","H","I","J","K","L","M",
            "N","O","P","Q","R","S","T","U","V","W","X","Y","Z">>
Digits == <<"0","1","2","3","4","5","6","7","8","9">>

\* The characters of the model in code-point order (Python compares str by code point).
CharOrder == <<"\t", "\n", " ", "!", "'", "-", ".", "/">> \o Digits \o <<":">> \o Uppers \o Lowers \o <<"|">>

Range(s) == { s[i] : i \in DOMAIN s }

Ord(c) == CHOOSE i \in DOMAIN CharOrder : CharOrder[i] = c

IsSpace(c) == c \in {" ", "\t", "\n"}
IsDigit(c) == c \in Range(Digits)
IsLowerAlnum(c) == c \in Range(Lowers) \cup Range(Digits)

\* str.lower() on one character
LowerChar(c) ==
  IF c \in Range(Uppers) THEN Lowers[CHOOSE i \in DOMAIN Uppers : Uppers[i] = c] ELSE c

\* str.lower()
Lower(s) == [i \in DOMAIN s |-> LowerChar(s[i])]

\* the position of the first character that is not whitespace, Len(s) + 1 if none
FirstNonSpace(s) ==
  IF \A i \in DOMAIN s : IsSpace(s[i]) THEN Len(s) + 1
  ELSE CHOOSE i \in DOMAIN s : ~IsSpace(s[i]) /\ \A j \in 1..(i - 1) : IsSpace(s[j])

\* the position of the last character that is not whitespace, 0 if none
LastNonSpace(s) ==
  IF \A i \in DOMAIN s : IsSpace(s[i]) THEN 0
  ELSE CHOOSE i \in DOMAIN s : ~IsSpace(s[i]) /\ \A j \in (i + 1)..Len(s) : IsSpace(s[j])

\* the position of the first whitespace character, Len(s) + 1 if none
FirstSpace(s) ==
  IF \A i \in DOMAIN s : ~IsSpace(s[i]) THEN Len(s) + 1
  ELSE CHOOSE i \in DOMAIN s : IsSpace(s[i]) /\ \A j \in 1..(i - 1) : ~IsSpace(s[j])

LStrip(s) == SubSeq(s, FirstNonSpace(s), Len(s))

RStrip(s) == SubSeq(s, 1, LastNonSpace(s))

\* str.strip()
Strip(s) == RStrip(LStrip(s))

\* re.sub(r"\s+", " ", s): every run of whitespace becomes one space
\* each character with what re.sub puts for it, and whether it is kept: a
\* character that Bad holds of becomes a space and is kept only at the start of
\* its run
Marks(s, Bad(_)) ==
  [i \in DOMAIN s |->
     [c |-> IF Bad(s[i]) THEN " " ELSE s[i],
      first |-> ~Bad(s[i]) \/ i = 1 \/ ~Bad(s[i - 1])]]

CharsOf(marks) == [i \in DOMAIN marks |-> marks[i].c]

\* re.sub(r"[...]+", " ", s): every run of characters that Bad holds of becomes one space
SquashRuns(s, Bad(_)) == CharsOf(SelectSeq(Marks(s, Bad), LAMBDA m : m.first))

CollapseSpaces(s) == SquashRuns(s, IsSpace)

StartsWith(s, p) == Len(p) <= Len(s) /\ SubSeq(s, 1, Len(p)) = p

\* str.replace(p, ""): remove the non-overlapping occurrences of p, left to right
RECURSIVE Remove(_, _)
Remove(s, p) ==
  IF s = <<>> THEN <<>>
  ELSE IF StartsWith(s, p) THEN Remove(SubSeq(s, Len(p) + 1, Len(s)), p)
  ELSE <<Head(s)>> \o Remove(Tail(s), p)

\* the prefix of s before the first occurrence of character c (all of s if none)
RECURSIVE UpTo(_, _)
UpTo(s, c) ==
  IF s = <<>> \/ Head(s) = c THEN <<>> ELSE <<Head(s)>> \o UpTo(Tail(s), c)

\* str.split(c) for a one-character separator: always at least one piece
RECURSIVE SplitOn(_, _)
SplitAfter(s, c, first) ==
  IF Len(first) = Len(s) THEN <<first>>
  ELSE <<first>> \o SplitOn(SubSeq(s, Len(first) + 2, Len(s)), c)

SplitOn(s, c) == SplitAfter(s, c, UpTo(s, c))

\* the characters of s before its first whitespace
UpToSpace(s) == SubSeq(s, 1, FirstSpace(s) - 1)

\* str.split(): the maximal runs of non-whitespace
RECURSIVE SplitWs(_)
TakeWord(t, w) == <<w>> \o SplitWs(SubSeq(t, Len(w) + 1, Len(t)))

SplitWords(t) == IF t = <<>> THEN <<>> ELSE TakeWord(t, UpToSpace(t))

SplitWs(s) == SplitWords(LStrip(s))

\* sep.join(parts)
RECURSIVE Join(_, _)
Join(parts, sep) ==
  IF parts = <<>> THEN <<>>
  ELSE IF Len(parts) = 1 THEN parts[1]
  ELSE parts[1] \o sep \o Join(Tail(parts), sep)

\* Python's str `<`: lexicographic by code point
RECURSIVE StrLess(_, _)
StrLess(a, b) ==
  IF b = <<>> THEN FALSE
  ELSE IF a = <<>> THEN TRUE
  ELSE IF Head(a) = Head(b) THEN StrLess(Tail(a), Tail(b))
  ELSE Ord(Head(a)) < Ord(Head(b))

\* sorted(S) for a set of strings
RECURSIVE SortedStrings(_)
SmallestFirst(S, m) == <<m>> \o SortedStrings(S \ {m})

SortedStrings(S) ==
  IF S = {} THEN <<>>
  ELSE SmallestFirst(S, CHOOSE x \in S : \A y \in S \ {x} : StrLess(x, y))

\* str(n) for an integer
RECURSIVE IntToStr(_)
IntToStr(n) ==
  IF n < 0 THEN <<"-">> \o IntToStr(-n)
  ELSE IF n < 10 THEN <<Digits[n + 1]>>
  ELSE IntToStr(n \div 10) \o <<Digits[(n % 10) + 1]>>

DigitVal(c) == (CHOOSE i \in DOMAIN Digits : Digits[i] = c) - 1

RECURSIVE DigitsValue(_)
DigitsValue(s) ==
  IF s = <<>> THEN 0 ELSE DigitsValue(SubSeq(s, 1, Len(s) - 1)) * 10 + DigitVal(s[Len(s)])

Max(a, b) == IF a >= b THEN a ELSE b
Min(a, b) == IF a <= b THEN a ELSE b

(***************************************************************************)
(* Python values                                                           *)
(***************************************************************************)
PyNone == [t |-> "none"]
PyStr(s) == [t |-> "str", v |-> s]
PyInt(n) == [t |-> "int", v |-> n]
PyBool(b) == [t |-> "bool", v |-> b]

\* bool(value)
Truthy(x) ==
  CASE x.t = "none" -> FALSE
    [] x.t = "str" -> x.v # <<>>
    [] x.t = "int" -> x.v # 0
    [] x.t = "bool" -> x.v
    [] x.t = "dict" -> DOMAIN x.v # {}
    [] x.t = "list" -> x.v # <<>>

\* str(value)
ToStr(x) ==
  CASE x.t = "none" -> <<"N","o","n","e">>
    [] x.t = "str" -> x.v
    [] x.t = "int" -> IntToStr(x.v)
    [] x.t = "bool" -> IF x.v THEN <<"T","r","u","e">> ELSE <<"F","a","l","s","e">>

\* dict.get(key): None when the key is absent
Get(row, k) == IF k \in DOMAIN row THEN row[k] ELSE PyNone

\* row[key] = value
Put(row, k, val) == [f \in DOMAIN row \cup {k} |-> IF f = k THEN val ELSE row[f]]

(***************************************************************************)
(* app_utils.py: the normalisers                                           *)
(***************************************************************************)
clean_text(text) ==
  IF text.t = "none" THEN <<>> ELSE Strip(CollapseSpaces(ToStr(text)))

\* float(s) followed by int(): the decimal numerals "[+-]digits[.digits]" (white
\* space around them allowed) truncated towards zero; anything else raises.
\* ip, fp: the text before and after the decimal point; neg: a leading "-"
ParseParts(ip, fp, neg) ==
  IF /\ \A i \in DOMAIN ip : IsDigit(ip[i])
     /\ \A i \in DOMAIN fp : IsDigit(fp[i])
     /\ (ip # <<>> \/ fp # <<>>)
  THEN [ok |-> TRUE, v |-> IF neg THEN -DigitsValue(ip) ELSE DigitsValue(ip)]
  ELSE [ok |-> FALSE, v |-> 0]

ParsePoint(u, ip, neg) ==
  ParseParts(ip, IF Len(ip) = Len(u) THEN <<>> ELSE SubSeq(u, Len(ip) + 2, Len(u)), neg)

ParseUnsigned(u, neg) == ParsePoint(u, UpTo(u, "."), neg)

ParseSigned(b) ==
  ParseUnsigned(IF b # <<>> /\ Head(b) \in {"-", "+"} THEN Tail(b) ELSE b,
                b # <<>> /\ Head(b) = "-")

ParseFloatTrunc(s) == ParseSigned(Strip(s))

\* the value on success, `otherwise` when float() raised
ParsedOr(p, otherwise) == IF p.ok THEN PyInt(p.v) ELSE otherwise

normalize_year(value) ==
  CASE value.t = "none" -> PyNone
    [] value.t = "int" -> PyInt(value.v)
    [] value.t = "bool" -> PyNone
    [] value.t = "str" ->
         IF value.v = <<>> THEN PyNone ELSE ParsedOr(ParseFloatTrunc(value.v), PyNone)

normalize_int(value) ==
  CASE value.t = "none" -> PyInt(0)
    [] value.t = "int" -> PyInt(value.v)
    [] value.t = "bool" -> PyInt(IF value.v THEN 1 ELSE 0)
    [] value.t = "str" ->
         IF value.v = <<>> THEN PyInt(0) ELSE ParsedOr(ParseFloatTrunc(value.v), PyInt(0))

DoiHttps == <<"h","t","t","p","s",":","/","/","d","o","i",".","o","r","g","/">>
DoiHttp == <<"h","t","t","p",":","/","/","d","o","i",".","o","r","g","/">>

StripResolver(doi) ==
  IF doi = <<>> THEN <<>> ELSE Remove(Remove(doi, DoiHttps), DoiHttp)

normalize_doi(value) == StripResolver(Lower(clean_text(value)))

\* re.sub(r"[^a-z0-9 ]+", " ", s): every run of other characters becomes one space
SubNonAlnum(s) == SquashRuns(s, LAMBDA c : ~(IsLowerAlnum(c) \/ c = " "))

SelectLong(tokens) == SelectSeq(tokens, LAMBDA tok : Len(tok) > 2)

title_fingerprint(title) ==
  Join(SelectLong(SplitWs(SubNonAlnum(Lower(clean_text(title))))), <<" ">>)

(***************************************************************************)
(* app_utils.py: merge_result_rows                                         *)
(***************************************************************************)
TextFields == <<"Title", "Authors", "Venue", "URL", "PDF", "DOI">>

\* incoming's value replaces current's whenever incoming's is not empty
FillTextField_overwrite(current, incoming, field) ==
  IF clean_text(Get(incoming, field)) # <<>>
  THEN Put(current, field, Get(incoming, field))
  ELSE current

\* one pass of `for field in [...]`: take incoming's value where current's is empty
FillTextField(current, incoming, field) ==
  IF clean_text(Get(current, field)) = <<>> /\ clean_text(Get(incoming, field)) # <<>>
  THEN Put(current, field, Get(incoming, field))
  ELSE current

\* the loop over the fields (lines 182-184): a pass reads and writes its own
\* field only, so each field ends as its own pass leaves it
FillTextFields(current, incoming, fields) ==
  [f \in DOMAIN current
          \cup { g \in Range(fields) : g \in DOMAIN FillTextField(current, incoming, g) } |->
     IF f \in Range(fields) THEN FillTextField(current, incoming, f)[f] ELSE current[f]]

\* mutant: the citation counts are added
MergeCites_sum(current, incoming) ==
  Put(current, "Cites",
      PyInt(normalize_int(Get(current, "Cites")).v + normalize_int(Get(incoming, "Cites")).v))

MergeCites(current, incoming) ==
  Put(current, "Cites",
      PyInt(Max(normalize_int(Get(current, "Cites")).v, normalize_int(Get(incoming, "Cites")).v)))

MergeYears(current, current_year, incoming_year) ==
  IF current_year = PyNone THEN Put(current, "Year", incoming_year)
  ELSE IF incoming_year # PyNone
       THEN Put(current, "Year", PyInt(Max(current_year.v, incoming_year.v)))
       ELSE current

MergeYear(current, incoming) ==
  MergeYears(current, normalize_year(Get(current, "Year")), normalize_year(Get(incoming, "Year")))

MergeOA(current, incoming) ==
  Put(current, "OA", PyBool(Truthy(Get(current, "OA")) \/ Truthy(Get(incoming, "OA"))))

MergeAbstracts(current, current_abs, incoming_abs) ==
  IF Len(incoming_abs) > Len(current_abs)
  THEN Put(current, "Abstract", PyStr(incoming_abs))
  ELSE current

MergeAbstract(current, incoming) ==
  MergeAbstracts(current, clean_text(Get(current, "Abstract")), clean_text(Get(incoming, "Abstract")))

Bar == "|"
BarSep == <<" ", "|", " ">>
Unknown == <<"U","n","k","n","o","w","n">>

\* {clean_text(item) for item in clean_text(value).split("|") if clean_text(item)}
SourceTags(value) ==
  { clean_text(PyStr(item)) : item \in Range(SplitOn(clean_text(value), Bar)) } \ {<<>>}

\* text or "Unknown"
OrUnknown(text) == IF text # <<>> THEN text ELSE Unknown

\* lines 204-209 (and 278-283): Source and SourceCount from the set of tags
SetSource(current, source_set) ==
  IF source_set # {}
  THEN Put(Put(current, "Source", PyStr(Join(SortedStrings(source_set), BarSep))),
           "SourceCount", PyInt(Cardinality(source_set)))
  ELSE Put(Put(current, "Source", PyStr(OrUnknown(clean_text(Get(current, "Source"))))),
           "SourceCount", PyInt(1))

\* mutant: the incoming tags are appended to the list, not united with the set
MergeSource_append(current, incoming) ==
  Put(Put(current, "Source",
          PyStr(clean_text(Get(current, "Source")) \o BarSep \o clean_text(Get(incoming, "Source")))),
      "SourceCount",
      PyInt(Len(SplitOn(clean_text(Get(current, "Source")), Bar))
            + Len(SplitOn(clean_text(Get(incoming, "Source")), Bar))))

MergeSource(current, incoming) ==
  SetSource(current, SourceTags(Get(current, "Source")) \cup SourceTags(Get(incoming, "Source")))

\* merge_result_rows mutates `current` in place; the operator returns its new value
merge_result_rows(current, incoming) ==
  MergeSource(
    MergeAbstract(
      MergeOA(
        MergeYear(
          MergeCites(
            FillTextFields(current, incoming, TextFields), incoming), incoming), incoming), incoming), incoming)

(***************************************************************************)
(* app_utils.py: jaccard_similarity and deduplicate_results                *)
(*                                                                         *)
(* A float in [0, 1] is the exact fraction [num, den]; `>=` on two of them *)
(* is decided by cross-multiplication.                                     *)
(***************************************************************************)
Frac(n, d) == [num |-> n, den |-> d]
FracGeq(a, b) == a.num * b.den >= b.num * a.den

jaccard_similarity(left_tokens, right_tokens) ==
  LET union == left_tokens \cup right_tokens
  IN IF union = {} THEN Frac(0, 1)
     ELSE Frac(Cardinality(left_tokens \cap right_tokens), Cardinality(union))

RowDash == <<"r","o","w","-">>

\* mutant: the title fingerprint takes precedence over the DOI
KeyOf_title_first(doi, title_key, index) ==
  IF title_key # <<>> THEN title_key
  ELSE IF doi # <<>> THEN doi
  ELSE RowDash \o IntToStr(index)

\* key = doi or title_key or f"row-{index}"
KeyOf(doi, title_key, index) ==
  IF doi # <<>> THEN doi
  ELSE IF title_key # <<>> THEN title_key
  ELSE RowDash \o IntToStr(index)

\* mutant: a DOI-less row is keyed by its position, never by its title
DedupeKey_no_title(row, index) ==
  KeyOf(normalize_doi(Get(row, "DOI")), <<>>, index)

DedupeKey(row, index) ==
  KeyOf(normalize_doi(Get(row, "DOI")), title_fingerprint(Get(row, "Title")), index)

\* {source} if source else set()
SourceSetOf(source) == IF source # <<>> THEN {source} ELSE {}

\* the item a first-seen key starts with (lines 259-264)
NewItem(row) ==
  Put(Put(Put(Put(row,
    "_source_set", SourceSetOf(clean_text(Get(row, "Source")))),
    "Cites", normalize_int(Get(row, "Cites"))),
    "Year", normalize_year(Get(row, "Year"))),
    "OA", PyBool(Truthy(Get(row, "OA"))))

\* mutant: the tag of a row that meets its key again is not recorded
AddSource_never(current, source) == current

AddSource(current, source) ==
  IF source # <<>>
  THEN Put(current, "_source_set", current["_source_set"] \cup {source})
  ELSE current

\* a row that meets its key again (lines 268-273)
MergeIntoItem(current, row) ==
  merge_result_rows(AddSource(current, clean_text(Get(row, "Source"))), row)

\* One iteration of the exact pass.  `merged` is the dict in insertion order: a
\* sequence of [key, item, members], where members (the 1-based positions of the
\* input rows merged into the item) is a history field that the code does not hold.
ExactStep(merged, row, index, key) ==
  IF \A i \in DOMAIN merged : merged[i].key # key
  THEN Append(merged, [key |-> key, item |-> NewItem(row), members |-> {index + 1}])
  ELSE [i \in DOMAIN merged |->
          IF merged[i].key = key
          THEN [key |-> key,
                item |-> MergeIntoItem(merged[i].item, row),
                members |-> merged[i].members \cup {index + 1}]
          ELSE merged[i]]

\* for index, row in enumerate(results), from `index` on
RECURSIVE ExactPass(_, _, _)
ExactPass(results, index, merged) ==
  IF index >= Len(results) THEN merged
  ELSE ExactPass(results, index + 1,
         ExactStep(merged, results[index + 1], index, DedupeKey(results[index + 1], index)))

WithoutSourceSet(item) == [f \in DOMAIN item \ {"_source_set"} |-> item[f]]

\* item.pop("_source_set") and the Source / SourceCount it gives (lines 276-284)
FinishItem(item) == SetSource(WithoutSourceSet(item), item["_source_set"])

FinishAll(merged) ==
  [i \in DOMAIN merged |-> [item |-> FinishItem(merged[i].item), members |-> merged[i].members]]

ExactOutput(results) == FinishAll(ExactPass(results, 0, <<>>))

TitleTokens(row) == Range(SplitWs(title_fingerprint(Get(row, "Title"))))

\* mutant: the fuzzy pass compares titles whatever the DOIs
ShouldMergeDoi_titles_only(existing, row_copy, fuzzy_threshold, row_doi, existing_doi) ==
  FracGeq(jaccard_similarity(TitleTokens(row_copy), TitleTokens(existing)), fuzzy_threshold)

\* mutant: a similarity equal to the threshold does not merge
ShouldMergeDoi_strictly_above(existing, row_copy, fuzzy_threshold, row_doi, existing_doi) ==
  IF row_doi # <<>> /\ existing_doi # <<>> /\ row_doi = existing_doi THEN TRUE
  ELSE IF row_doi = <<>> /\ existing_doi = <<>>
       THEN ~FracGeq(fuzzy_threshold, jaccard_similarity(TitleTokens(row_copy), TitleTokens(existing)))
       ELSE FALSE

\* should_merge of the fuzzy pass (lines 297-306)
ShouldMergeDoi(existing, row_copy, fuzzy_threshold, row_doi, existing_doi) ==
  IF row_doi # <<>> /\ existing_doi # <<>> /\ row_doi = existing_doi THEN TRUE
  ELSE IF row_doi = <<>> /\ existing_doi = <<>>
       THEN FracGeq(jaccard_similarity(TitleTokens(row_copy), TitleTokens(existing)), fuzzy_threshold)
       ELSE FALSE

ShouldMerge(existing, row_copy, fuzzy_threshold) ==
  ShouldMergeDoi(existing, row_copy, fuzzy_threshold,
                 normalize_doi(Get(row_copy, "DOI")), normalize_doi(Get(existing, "DOI")))

\* the last accepted row that should_merge takes the row
FuzzyMerge_last_hit(refined, entry, hits) ==
  IF hits = {} THEN Append(refined, entry)
  ELSE [refined EXCEPT ![CHOOSE j \in hits : \A k \in hits : j >= k] =
          [item |-> merge_result_rows(@.item, entry.item),
           members |-> @.members \cup entry.members]]

\* the first accepted row that should_merge, merged with the row; else the row is accepted
FuzzyMerge(refined, entry, hits) ==
  IF hits = {} THEN Append(refined, entry)
  ELSE [refined EXCEPT ![CHOOSE j \in hits : \A k \in hits : j <= k] =
          [item |-> merge_result_rows(@.item, entry.item),
           members |-> @.members \cup entry.members]]

FuzzyStep(refined, entry, fuzzy_threshold) ==
  FuzzyMerge(refined, entry,
             { i \in DOMAIN refined : ShouldMerge(refined[i].item, entry.item, fuzzy_threshold) })

\* The fuzzy pass: `output` is scanned in order, next is the 1-based position of
\* the row under inspection, refined the accepted rows.
RECURSIVE FuzzyPass(_, _, _, _)
FuzzyPass(output, next, refined, fuzzy_threshold) ==
  IF next > Len(output) THEN refined
  ELSE FuzzyPass(output, next + 1, FuzzyStep(refined, output[next], fuzzy_threshold), fuzzy_threshold)

\* if not fuzzy_title: return output
Refine(output, fuzzy_title, fuzzy_threshold) ==
  IF ~fuzzy_title THEN output ELSE FuzzyPass(output, 1, <<>>, fuzzy_threshold)

\* deduplicate_results with the history field: a sequence of [item, members]
DedupeEntries(results, fuzzy_title, fuzzy_threshold) ==
  Refine(ExactOutput(results), fuzzy_title, fuzzy_threshold)

Items(entries) == [i \in DOMAIN entries |-> entries[i].item]

deduplicate_results(results, fuzzy_title, fuzzy_threshold) ==
  Items(DedupeEntries(results, fuzzy_title, fuzzy_threshold))

(***************************************************************************)
(* The records the provider clients hand to the pipeline.  Each is a row   *)
(* dict as search_sources.py builds it (Source, Title, Authors, Year,      *)
(* Venue, URL, PDF, DOI, Cites, Abstract, OA).                             *)
(***************************************************************************)
\* Crossref: "Foo", DOI 10.1/x
P1 ==
  [Source |-> PyStr(<<"C","r","o","s","s","r","e","f">>),
   Title |-> PyStr(<<"F","o","o">>),
   Authors |-> PyStr(<<"A"," ","B">>),
   Year |-> PyInt(2020),
   Venue |-> PyStr(<<"J">>),
   URL |-> PyStr(<<"u","1">>),
   PDF |-> PyStr(<<>>),
   DOI |-> PyStr(<<"1","0",".","1","/","x">>),
   Cites |-> PyInt(5),
   Abstract |-> PyStr(<<>>),
   OA |-> PyBool(FALSE)]

\* Semantic Scholar: "Foo Bar", the same DOI as P1 behind the resolver prefix and in upper case
P2 ==
  [Source |-> PyStr(<<"S","e","m","a","n","t","i","c"," ","S","c","h","o","l","a","r">>),
   Title |-> PyStr(<<"F","o","o"," ","B","a","r">>),
   Authors |-> PyStr(<<>>),
   Year |-> PyNone,
   Venue |-> PyNone,
   URL |-> PyNone,
   PDF |-> PyNone,
   DOI |-> PyStr(<<"h","t","t","p","s",":","/","/","d","o","i",".","o","r","g","/","1","0",".","1","/","X">>),
   Cites |-> PyInt(12),
   Abstract |-> PyStr(<<"a","b","c">>),
   OA |-> PyBool(TRUE)]

\* OpenAlex: "foo!" (the title fingerprint of P1) under another DOI
P3 ==
  [Source |-> PyStr(<<"O","p","e","n","A","l","e","x">>),
   Title |-> PyStr(<<"f","o","o","!">>),
   Authors |-> PyStr(<<"C"," ","D">>),
   Year |-> PyInt(2021),
   Venue |-> PyStr(<<"K">>),
   URL |-> PyStr(<<"u","3">>),
   PDF |-> PyNone,
   DOI |-> PyStr(<<"1","0",".","2","/","y">>),
   Cites |-> PyInt(7),
   Abstract |-> PyStr(<<"a","b">>),
   OA |-> PyBool(FALSE)]

\* ArXiv: "Deep Learning for X", no DOI
P4 ==
  [Source |-> PyStr(<<"A","r","X","i","v">>),
   Title |-> PyStr(<<"D","e","e","p"," ","L","e","a","r","n","i","n","g"," ","f","o","r"," ","X">>),
   Authors |-> PyStr(<<"E"," ","F">>),
   Year |-> PyInt(2019),
   Venue |-> PyStr(<<"A","r","X","i","v">>),
   URL |-> PyStr(<<"u","4">>),
   PDF |-> PyStr(<<"p","4">>),
   DOI |-> PyStr(<<>>),
   Cites |-> PyInt(0),
   Abstract |-> PyStr(<<"a","b"," ","c","d">>),
   OA |-> PyBool(TRUE)]

\* Google: "deep learning for x!!", no DOI: P4 but for case and punctuation
P5 ==
  [Source |-> PyStr(<<"G","o","o","g","l","e">>),
   Title |-> PyStr(<<"d","e","e","p"," ","l","e","a","r","n","i","n","g"," ","f","o","r"," ","x","!","!">>),
   Authors |-> PyStr(<<"S","e","e"," ","l","i","n","k">>),
   Year |-> PyNone,
   Venue |-> PyStr(<<"g">>),
   URL |-> PyStr(<<"u","5">>),
   PDF |-> PyStr(<<>>),
   DOI |-> PyStr(<<>>),
   Cites |-> PyInt(0),
   Abstract |-> PyStr(<<>>),
   OA |-> PyBool(FALSE)]

\* Google: a title of short tokens only (empty fingerprint), no DOI
P6 ==
  [Source |-> PyStr(<<"G","o","o","g","l","e">>),
   Title |-> PyStr(<<"a","b">>),
   Authors |-> PyStr(<<"S","e","e"," ","l","i","n","k">>),
   Year |-> PyNone,
   Venue |-> PyStr(<<"g">>),
   URL |-> PyStr(<<"u","6">>),
   PDF |-> PyStr(<<>>),
   DOI |-> PyStr(<<>>),
   Cites |-> PyInt(0),
   Abstract |-> PyStr(<<>>),
   OA |-> PyBool(FALSE)]

\* Crossref: "Deep learning", no DOI, year and citations not yet normalised
P7 ==
  [Source |-> PyStr(<<"C","r","o","s","s","r","e","f">>),
   Title |-> PyStr(<<"D","e","e","p"," ","l","e","a","r","n","i","n","g">>),
   Authors |-> PyStr(<<"G"," ","H">>),
   Year |-> PyStr(<<"2","0","2","2">>),
   Venue |-> PyStr(<<"J">>),
   URL |-> PyStr(<<"u","7">>),
   PDF |-> PyStr(<<>>),
   DOI |-> PyNone,
   Cites |-> PyStr(<<"3">>),
   Abstract |-> PyStr(<<>>),
   OA |-> PyBool(FALSE)]

\* OpenAlex: "Foo" without a DOI
P8 ==
  [Source |-> PyStr(<<"O","p","e","n","A","l","e","x">>),
   Title |-> PyStr(<<"F","o","o">>),
   Authors |-> PyStr(<<"A"," ","B">>),
   Year |-> PyInt(2018),
   Venue |-> PyStr(<<"K">>),
   URL |-> PyStr(<<"u","8">>),
   PDF |-> PyNone,
   DOI |-> PyStr(<<>>),
   Cites |-> PyInt(9),
   Abstract |-> PyStr(<<"a","b","c","d">>),
   OA |-> PyBool(TRUE)]


RowPool == {P1, P2, P3, P4, P5, P6, P7, P8}

\* the longest input list of deduplicate_results that is explored
MaxRows == 3

\* the sequences over S of length at most n
RECURSIVE SeqsUpTo(_, _)
SeqsUpTo(S, n) ==
  IF n = 0 THEN {<<>>}
  ELSE LET shorter == SeqsUpTo(S, n - 1)
       IN shorter \cup { Append(q, x) : q \in { r \in shorter : Len(r) = n - 1 }, x \in S }

\* fuzzy_threshold = fuzzy_threshold_pct / 100.0, the slider's percentage
ThresholdPcts == {50, 90}

(***************************************************************************)
(* search_sources.py: make_request, the provider clients, run_source and   *)
(* the body of the fan-in loop of search_all_sources                       *)
(***************************************************************************)
\* the source tags of the multiselect (app.py) and of run_source's branches
SemanticScholar == <<"S","e","m","a","n","t","i","c"," ","S","c","h","o","l","a","r">>
OpenAlex == <<"O","p","e","n","A","l","e","x">>
ArXiv == <<"A","r","X","i","v">>
Crossref == <<"C","r","o","s","s","r","e","f">>
GoogleCustomSearch == <<"G","o","o","g","l","e"," ","C","u","s","t","o","m"," ","S","e","a","r","c","h">>

SourceNames == {SemanticScholar, OpenAlex, ArXiv, Crossref, GoogleCustomSearch}

\* make_request(url, params=None, headers=None, retries=3)
retries == 3

\* What the endpoint does on each attempt of one make_request call: "200", a
\* rate-limit status ("429", "503"), another status that raise_for_status
\* rejects ("500"), or "timeout" when requests.get itself raises.
Healthy == <<"200", "200", "200">>
RecoversOnRetry == <<"429", "timeout", "200">>
RateLimited == <<"429", "503", "429">>
Failing == <<"timeout", "500", "500">>

Response == [t |-> "response"]

\* the `for attempt in range(retries)` loop of make_request, from `attempt` on
RECURSIVE Attempts(_, _)
Attempts(endpoint, attempt) ==
  IF attempt >= retries THEN PyNone
  ELSE IF endpoint[attempt + 1] \in {"429", "503"} THEN Attempts(endpoint, attempt + 1)
  ELSE IF endpoint[attempt + 1] = "200" THEN Response
  ELSE IF attempt = retries - 1 THEN PyNone
  ELSE Attempts(endpoint, attempt + 1)

make_request(endpoint) == Attempts(endpoint, 0)

\* `if not response: return []`, else the rows parsed from the payload
RowsOf(response, payload) == IF response = PyNone THEN <<>> ELSE payload

\* The payload of each endpoint, as the rows its client builds from it.
SemanticScholarRows == <<P2>>
OpenAlexRows == <<P3, P8>>
ArXivRows == <<P4>>
CrossrefRows == <<P1>>
GoogleRows == <<P5, P6>>

search_semantic_scholar(api_key, endpoint) == RowsOf(make_request(endpoint), SemanticScholarRows)

search_openalex(endpoint) == RowsOf(make_request(endpoint), OpenAlexRows)

search_arxiv(endpoint) == RowsOf(make_request(endpoint), ArXivRows)

search_crossref(endpoint) == RowsOf(make_request(endpoint), CrossrefRows)

search_google(api_key, cx_id, endpoint) ==
  IF ~Truthy(api_key) \/ ~Truthy(cx_id) THEN <<>>
  ELSE RowsOf(make_request(endpoint), GoogleRows)

\* api_keys as app.py builds it, {"ss": ..., "google": ..., "cx": ...}, or None
Dict(d) == [t |-> "dict", v |-> d]
KeysAll == Dict([ss |-> PyStr(<<"k">>), google |-> PyStr(<<"g">>), cx |-> PyStr(<<"c">>)])
KeysBlank == Dict([ss |-> PyStr(<<>>), google |-> PyStr(<<>>), cx |-> PyStr(<<>>)])

\* str(exc) of the AttributeError that None.get raises
NoneHasNoGet ==
  <<"'","N","o","n","e","T","y","p","e","'"," ","o","b","j","e","c","t"," ","h","a","s"," ",
    "n","o"," ","a","t","t","r","i","b","u","t","e"," ","'","g","e","t","'">>

\* what awaiting a task gives: the tuple run_source returns, or the exception it raised
Returned(source, rows) ==
  [raised |-> FALSE, source |-> source, rows |-> rows, error_text |-> <<>>, duration |-> 1]
Raised(text) == [raised |-> TRUE, exc |-> text]

\* run_source(source); the duration, perf_counter() - started, is one tick
run_source(source, api_keys, endpoint) ==
  IF source = SemanticScholar THEN
    IF api_keys = PyNone THEN Raised(NoneHasNoGet)
    ELSE Returned(source, search_semantic_scholar(api_keys.v.ss, endpoint))
  ELSE IF source = OpenAlex THEN Returned(source, search_openalex(endpoint))
  ELSE IF source = ArXiv THEN Returned(source, search_arxiv(endpoint))
  ELSE IF source = Crossref THEN Returned(source, search_crossref(endpoint))
  ELSE IF source = GoogleCustomSearch THEN
    IF api_keys = PyNone THEN Raised(NoneHasNoGet)
    ELSE Returned(source, search_google(api_keys.v.google, api_keys.v.cx, endpoint))
  ELSE Returned(source, <<>>)

\* the locals after the try/except of the loop body (lines 262-271)
Awaited(outcome) ==
  IF outcome.raised
  THEN [source_name |-> Unknown, source_results |-> <<>>, error_text |-> outcome.exc, duration |-> 0]
  ELSE [source_name |-> outcome.source, source_results |-> outcome.rows,
        error_text |-> outcome.error_text, duration |-> outcome.duration]

\* mutant: a task that raised empties the list gathered so far
Extend_reset_on_error(all_results, outcome) ==
  IF outcome.raised \/ outcome.rows = <<>> THEN <<>> ELSE all_results \o outcome.rows

\* `if source_results: all_results.extend(source_results)`, inside the try
Extend(all_results, outcome) ==
  IF ~outcome.raised /\ outcome.rows # <<>> THEN all_results \o outcome.rows ELSE all_results

\* the dict appended to source_stats (lines 273-281)
StatOf(locals) ==
  [source |-> locals.source_name,
   result_count |-> Len(locals.source_results),
   duration_sec |-> locals.duration,
   error |-> locals.error_text,
   status |-> IF locals.error_text # <<>> THEN "Error" ELSE "OK"]

SourceStat(outcome) == StatOf(Awaited(outcome))

\* mutant: the callback is fed before `completed += 1`
ProgressValue_before_increment(completed, total) == Frac(completed - 1, total)

\* completed / total, after `completed += 1`
ProgressValue(completed, total) == Frac(completed, total)

\* list.sort(key=lambda item: item["source"]) is stable: a stat goes behind
\* every stat whose source is not greater
RECURSIVE InsertStat(_, _)
InsertStat(sorted, stat) ==
  IF sorted = <<>> THEN <<stat>>
  ELSE IF StrLess(stat.source, Head(sorted).source) THEN <<stat>> \o sorted
  ELSE <<Head(sorted)>> \o InsertStat(Tail(sorted), stat)

RECURSIVE SortStats(_)
SortStats(stats) ==
  IF stats = <<>> THEN <<>>
  ELSE InsertStat(SortStats(SubSeq(stats, 1, Len(stats) - 1)), stats[Len(stats)])

\* the longest list of selected sources that is explored
MaxSources == 2

\* the lists of distinct tags of length at most n
DistinctSeqs(S, n) ==
  { q \in SeqsUpTo(S, n) : \A i, j \in DOMAIN q : q[i] = q[j] => i = j }

(***************************************************************************)
(* app_utils.py: record_id_from_row, compute_relevance_score and           *)
(* prepare_dataframe; app.py: the filters of main and apply_sort           *)
(***************************************************************************)
\* datetime.now().year
CURRENT_YEAR == 2026

\* prefix + hashlib.md5(text).hexdigest()[:16], kept as the prefix and the text
\* that is digested: distinct texts are taken to have distinct digests
Digest(prefix, text) == [kind |-> prefix, of |-> text]

RowFallback(row) ==
  clean_text(Get(row, "Title")) \o <<"|">> \o clean_text(Get(row, "Authors"))

IdByUrl(row, url) ==
  IF url # <<>> THEN Digest("url", url) ELSE Digest("row", RowFallback(row))

IdByTitle(row, title_key) ==
  IF title_key # <<>> THEN Digest("title", title_key)
  ELSE IdByUrl(row, Lower(clean_text(Get(row, "URL"))))

\* the DOI comes second, after the title fingerprint
IdByDoi_after_title(row, doi) ==
  IF title_fingerprint(Get(row, "Title")) # <<>> THEN IdByTitle(row, title_fingerprint(Get(row, "Title")))
  ELSE IF doi # <<>> THEN [kind |-> "doi", of |-> doi]
  ELSE IdByTitle(row, <<>>)

\* "doi:" + doi is not digested
IdByDoi(row, doi) ==
  IF doi # <<>> THEN [kind |-> "doi", of |-> doi]
  ELSE IdByTitle(row, title_fingerprint(Get(row, "Title")))

record_id_from_row(row) == IdByDoi(row, normalize_doi(Get(row, "DOI")))

\* token in text
Contains(text, token) ==
  \E k \in 0..(Len(text) - Len(token)) : SubSeq(text, k + 1, k + Len(token)) = token

\* [token for token in re.findall(r"[a-z0-9]+", query.lower()) if len(token) > 2]
QueryTokens(query) == SelectLong(SplitWs(SubNonAlnum(Lower(query))))

\* f"{clean_text(row.get('Title'))} {clean_text(row.get('Abstract'))}".lower()
SearchableText(row) ==
  Lower(clean_text(Get(row, "Title")) \o <<" ">> \o clean_text(Get(row, "Abstract")))

\* The scores are fixed-point numbers, in millionths.
Overlap(tokens, text) == Len(SelectSeq(tokens, LAMBDA token : Contains(text, token)))

TokenScore(tokens, text) ==
  IF tokens # <<>> THEN (Overlap(tokens, text) * 1000000) \div Len(tokens) ELSE 0

\* math.log10(n) in millionths, for n = 1..32
Log10 ==
  << 0, 301030, 477121, 602060, 698970, 778151, 845098, 903090,
     954243, 1000000, 1041393, 1079181, 1113943, 1146128, 1176091, 1204120,
     1230449, 1255273, 1278754, 1301030, 1322219, 1342423, 1361728, 1380211,
     1397940, 1414973, 1431364, 1447158, 1462398, 1477121, 1491362, 1505150 >>

\* min(math.log10(cites + 1) / 3.0, 1.0)
CitationScore(cites) ==
  IF cites + 1 >= 1000 THEN 1000000 ELSE Min(Log10[cites + 1] \div 3, 1000000)

\* 0.3 without a year, else max(0.0, 1.0 - ((CURRENT_YEAR - year) / 20.0))
RecencyScore(year) ==
  IF year = PyNone THEN 300000 ELSE Max(0, (20 - (CURRENT_YEAR - year.v)) * 50000)

\* the weights are hundredths, as the sliders give them (step 0.01)
Weights(text_weight, citation_weight, recency_weight) ==
  [t |-> "tuple", v |-> <<text_weight, citation_weight, recency_weight>>]
DefaultWeights == <<55, 25, 20>>

\* the weights as they were supplied, in hundredths, taken as they are
Normalize_as_supplied(w, total_weight) ==
  <<Frac(w[1], 100), Frac(w[2], 100), Frac(w[3], 100)>>

\* lines 233-239: the default triple for a sum <= 0, else each weight divided
\* by the sum; three fractions of one denominator
Normalize(w, total_weight) ==
  IF total_weight <= 0
  THEN <<Frac(55, 100), Frac(25, 100), Frac(20, 100)>>
  ELSE <<Frac(w[1], total_weight), Frac(w[2], total_weight), Frac(w[3], total_weight)>>

\* lines 230-239: the three weights that are applied
AppliedWeights(weights) ==
  IF weights = PyNone THEN Normalize(DefaultWeights, DefaultWeights[1] + DefaultWeights[2] + DefaultWeights[3])
  ELSE Normalize(weights.v, weights.v[1] + weights.v[2] + weights.v[3])

\* lines 243-246: the three scores under the applied weights w
Weighted(token_score, citation_score, recency_score, w) ==
  (token_score * w[1].num + citation_score * w[2].num + recency_score * w[3].num) \div w[1].den

ApplyWeights(token_score, citation_score, recency_score, weights) ==
  Weighted(token_score, citation_score, recency_score, AppliedWeights(weights))

OaBonus(row) == IF Truthy(Get(row, "OA")) THEN 80000 ELSE 0

compute_relevance_score(query, row, weights) ==
  ApplyWeights(TokenScore(QueryTokens(query), SearchableText(row)),
               CitationScore(normalize_int(Get(row, "Cites")).v),
               RecencyScore(normalize_year(Get(row, "Year"))),
               weights)
  + OaBonus(row)

\* round(score, 4): the score in ten-thousandths
Round4(score) == (score + 50) \div 100

\* Series.fillna(value): None and NaN become `value`
FillNa(x, value) == IF x = PyNone THEN value ELSE x

\* the columns of prepare_dataframe before RecordId and Score (lines 447-460)
NormalizedRow(row) ==
  [Source |-> PyStr(clean_text(FillNa(Get(row, "Source"), PyStr(Unknown)))),
   Title |-> PyStr(clean_text(FillNa(Get(row, "Title"), PyStr(<<"U","n","t","i","t","l","e","d">>)))),
   Authors |-> PyStr(clean_text(FillNa(Get(row, "Authors"), PyStr(Unknown)))),
   Year |-> normalize_year(Get(row, "Year")),
   Venue |-> PyStr(clean_text(Get(row, "Venue"))),
   URL |-> PyStr(clean_text(Get(row, "URL"))),
   PDF |-> PyStr(clean_text(Get(row, "PDF"))),
   DOI |-> PyStr(clean_text(Get(row, "DOI"))),
   Cites |-> normalize_int(Get(row, "Cites")),
   Abstract |-> PyStr(clean_text(Get(row, "Abstract"))),
   OA |-> PyBool(Truthy(Get(row, "OA"))),
   SourceCount |-> PyInt(Max(normalize_int(FillNa(Get(row, "SourceCount"), PyInt(1))).v, 1))]

WithRecordId(row) == Put(row, "RecordId", record_id_from_row(row))

WithScore(row, query, score_weights) ==
  Put(row, "Score", PyInt(Round4(compute_relevance_score(query, row, score_weights))))

PreparedRow(row, query, score_weights) ==
  WithScore(WithRecordId(NormalizedRow(row)), query, score_weights)

\* the rows of the DataFrame; no row for an empty list
prepare_dataframe(rows, query, score_weights) ==
  [i \in DOMAIN rows |-> PreparedRow(rows[i], query, score_weights)]

\* Series.str.contains(pattern, case=False) for a pattern of letters and digits
ContainsNoCase(text, pattern) == Contains(Lower(text), Lower(pattern))

\* max(1, min(controls["min_source_count"], max(len(sources), 1)))
MinRequiredSources(min_source_count, selected) == Max(1, Min(min_source_count, Max(selected, 1)))

\* mutant: a row without a year does not pass the year-range mask
Passes_year_required(row, controls, selected) ==
  /\ row.Year # PyNone
  /\ controls.year_range[1] <= row.Year.v /\ row.Year.v <= controls.year_range[2]
  /\ row.Cites.v >= controls.min_citations
  /\ row.SourceCount.v >= MinRequiredSources(controls.min_source_count, selected)
  /\ controls.oa_filter => row.OA.v
  /\ controls.title_filter # <<>> => ContainsNoCase(row.Title.v, controls.title_filter)
  /\ controls.author_filter # <<>> => ContainsNoCase(row.Authors.v, controls.author_filter)
  /\ controls.venue_filter # <<>> => ContainsNoCase(row.Venue.v, controls.venue_filter)

\* the conjunction of the masks of main (lines 852-865) for one row
Passes(row, controls, selected) ==
  /\ \/ row.Year = PyNone
     \/ controls.year_range[1] <= row.Year.v /\ row.Year.v <= controls.year_range[2]
  /\ row.Cites.v >= controls.min_citations
  /\ row.SourceCount.v >= MinRequiredSources(controls.min_source_count, selected)
  /\ controls.oa_filter => row.OA.v
  /\ controls.title_filter # <<>> => ContainsNoCase(row.Title.v, controls.title_filter)
  /\ controls.author_filter # <<>> => ContainsNoCase(row.Authors.v, controls.author_filter)
  /\ controls.venue_filter # <<>> => ContainsNoCase(row.Venue.v, controls.venue_filter)

FilterRows(df, controls, selected) == SelectSeq(df, LAMBDA row : Passes(row, controls, selected))

\* a sorts strictly before b on the Year column, NaN last
YearBefore(a, b, ascending) ==
  IF a.Year = PyNone THEN FALSE
  ELSE IF b.Year = PyNone THEN TRUE
  ELSE IF ascending THEN a.Year.v < b.Year.v ELSE a.Year.v > b.Year.v

\* a sorts strictly before b under the keys of the mode (apply_sort)
SortsBefore(a, b, mode) ==
  CASE mode = "Relevance score" ->
         a.Score.v > b.Score.v \/ (a.Score.v = b.Score.v /\ a.Cites.v > b.Cites.v)
    [] mode = "Most cited" ->
         a.Cites.v > b.Cites.v \/ (a.Cites.v = b.Cites.v /\ a.Score.v > b.Score.v)
    [] mode = "Newest first" ->
         YearBefore(a, b, FALSE) \/ (a.Year = b.Year /\ a.Score.v > b.Score.v)
    [] mode = "Oldest first" ->
         YearBefore(a, b, TRUE) \/ (a.Year = b.Year /\ a.Score.v > b.Score.v)
    [] OTHER -> StrLess(a.Title.v, b.Title.v)

\* kind="mergesort" is stable: a row goes behind every row that it does not
\* sort strictly before
RECURSIVE InsertRow(_, _, _)
InsertRow(sorted, row, mode) ==
  IF sorted = <<>> THEN <<row>>
  ELSE IF SortsBefore(row, Head(sorted), mode) THEN <<row>> \o sorted
  ELSE <<Head(sorted)>> \o InsertRow(Tail(sorted), row, mode)

RECURSIVE apply_sort(_, _)
apply_sort(df, mode) ==
  IF df = <<>> THEN <<>>
  ELSE InsertRow(apply_sort(SubSeq(df, 1, Len(df) - 1), mode), df[Len(df)], mode)

\* rows = deduplicate_results(...) if controls["dedupe_enabled"] else raw_results
DedupedRows(raw_results, controls) ==
  IF controls.dedupe_enabled
  THEN deduplicate_results(raw_results, controls.fuzzy_dedupe, controls.fuzzy_threshold)
  ELSE raw_results

\* main, lines 829-867: the frame handed to render_output; no frame when
\* raw_results is empty
View(raw_results, query, controls, selected) ==
  apply_sort(FilterRows(prepare_dataframe(DedupedRows(raw_results, controls),
                                          query, controls.score_weights),
                        controls, selected),
             controls.sort_mode)

(***************************************************************************)
(* State                                                                   *)
(***************************************************************************)
VARIABLES
  results,          \* deduplicate_results: the input list
  fuzzy_title,      \* deduplicate_results: the flag
  fuzzy_threshold,  \* deduplicate_results: the threshold, a fraction
  entries,          \* deduplicate_results: the returned rows, each with its members
  probe,            \* merge_result_rows(m, dict(m)) for a returned row m: [index, item]
  dpc,              \* "idle", "input", "deduped", "remerged", "frame" or "prepared"
  sources,          \* search_all_sources: the selected source tags, in launch order
  api_keys,         \* search_all_sources: the credentials dict, or None
  progress_callback,\* search_all_sources: whether a callback was passed
  endpoints,        \* what the endpoint of each task does, attempt by attempt
  pending,          \* the tasks (indices of `sources`) the loop has not consumed yet
  all_results,      \* search_all_sources: all_results
  source_stats,     \* search_all_sources: source_stats
  completed,        \* search_all_sources: completed
  progress,         \* the values the callback has received, in order
  pc,               \* "idle", "call", "gathering", "returned" or "rendered"
  query,            \* main: the session's last_query
  controls,         \* main: the controls of the rerun that rendered
  view,             \* main: the rows of the frame handed to render_output
  scored,           \* prepare_dataframe: what compute_relevance_score returned, row by row
  search_input,     \* perform_search: the query box's text and whether Search was pressed
  session,          \* st.session_state: raw_results and source_stats
  body,             \* a provider client: the items of the response body
  parsed,           \* a provider client: the list it returned
  ipc,              \* "idle", "response" or "returned"
  attempt,          \* make_request: the loop variable
  sent,             \* make_request: how many times requests.get was called
  waits,            \* make_request: the sleeps after a response or an exception, in order
  response,         \* make_request: what it returned
  rpc,              \* "idle", "request", "backoff", "pause" or "done"
  selection,        \* core.search_all_sources: the `sources` argument, or None
  configured,       \* core: whether GOOGLE_API_KEY and CSE_ID are both set
  futures,          \* core.search_all_sources: the submitted calls, in order
  cpc,              \* "idle", "call" or "returned"
  heap,             \* the row dicts as objects: heap[r] is the dict behind reference r
  arg,              \* deduplicate_results on objects: the references the input list holds
  ret,              \* deduplicate_results on objects: the references the returned list holds
  hpc,              \* "idle", "call" or "returned"
  state_file,       \* load_persisted_state: what is at STATE_FILE
  loaded,           \* load_persisted_state: what the call returned or raised
  lpc               \* "idle", "call" or "done"

dvars == <<results, fuzzy_title, fuzzy_threshold, entries, probe, dpc>>
fvars == <<sources, api_keys, progress_callback, endpoints, pending,
           all_results, source_stats, completed, progress, pc>>
mvars == <<query, controls, view, scored>>
ivars == <<body, parsed, ipc>>
rvars == <<attempt, sent, waits, response, rpc>>
cvars == <<selection, configured, futures, cpc>>
hvars == <<heap, arg, ret, hpc>>
lvars == <<state_file, loaded, lpc>>
yvars == <<hvars, lvars>>
xvars == <<cvars, yvars>>
ovars == <<search_input, session, body, parsed, ipc, attempt, sent, waits, response, rpc, xvars>>
vars == <<results, fuzzy_title, fuzzy_threshold, entries, probe, dpc,
          sources, api_keys, progress_callback, endpoints, pending,
          all_results, source_stats, completed, progress, pc,
          query, controls, view, scored,
          search_input, session, body, parsed, ipc,
          attempt, sent, waits, response, rpc,
          selection, configured, futures, cpc,
          heap, arg, ret, hpc, state_file, loaded, lpc>>

NoProbe == [index |-> 0, item |-> <<>>]

\* no deduplicate_results call is under way
DedupeIdle ==
  /\ results = <<>>
  /\ fuzzy_title = FALSE
  /\ fuzzy_threshold = Frac(90, 100)
  /\ entries = <<>>
  /\ probe = NoProbe
  /\ dpc = "idle"

\* no search_all_sources call is under way
FetchIdle ==
  /\ sources = <<>>
  /\ api_keys = PyNone
  /\ progress_callback = FALSE
  /\ endpoints = <<>>
  /\ pending = {}
  /\ all_results = <<>>
  /\ source_stats = <<>>
  /\ completed = 0
  /\ progress = <<>>
  /\ pc = "idle"

\* the session as init_session_state leaves it, and no rerun under way
NoInput == [query |-> <<>>, search_btn |-> FALSE]
EmptySession == [raw_results |-> <<>>, source_stats |-> <<>>]
PageIdle ==
  /\ search_input = NoInput
  /\ session = EmptySession

\* no provider client is looked at on its own
ClientIdle ==
  /\ body = <<>>
  /\ parsed = <<>>
  /\ ipc = "idle"

\* no core.search_all_sources call is looked at
CoreIdle ==
  /\ selection = PyNone
  /\ configured = FALSE
  /\ futures = <<>>
  /\ cpc = "idle"

\* no deduplicate_results call is followed object by object
HeapIdle ==
  /\ heap = <<>>
  /\ arg = <<>>
  /\ ret = <<>>
  /\ hpc = "idle"

\* no load_persisted_state call is looked at
LoadIdle ==
  /\ state_file = PyNone
  /\ loaded = PyNone
  /\ lpc = "idle"

LaterIdle == HeapIdle /\ LoadIdle

ExtraIdle == CoreIdle /\ LaterIdle

\* no make_request call is looked at on its own
RequestIdle ==
  /\ attempt = 0
  /\ sent = 0
  /\ waits = <<>>
  /\ response = PyNone
  /\ rpc = "idle"

\* main has not rendered
NoControls == <<>>
ViewIdle ==
  /\ query = <<>>
  /\ controls = NoControls
  /\ view = <<>>
  /\ scored = <<>>

(***************************************************************************)
(* The deduplicator on its own: any input list over the pool               *)
(***************************************************************************)
DedupeInit ==
  /\ results \in SeqsUpTo(RowPool, MaxRows)
  /\ fuzzy_title \in BOOLEAN
  /\ fuzzy_threshold \in { Frac(p, 100) : p \in ThresholdPcts }
  /\ (~fuzzy_title => fuzzy_threshold = Frac(90, 100))
  /\ entries = <<>>
  /\ probe = NoProbe
  /\ dpc = "input"
  /\ FetchIdle
  /\ ViewIdle
  /\ PageIdle
  /\ ClientIdle
  /\ RequestIdle
  /\ ExtraIdle

\* rows = deduplicate_results(raw_results, fuzzy_title=..., fuzzy_threshold=...)
Deduplicate ==
  /\ dpc = "input"
  /\ entries' = DedupeEntries(results, fuzzy_title, fuzzy_threshold)
  /\ dpc' = "deduped"
  /\ UNCHANGED <<results, fuzzy_title, fuzzy_threshold, probe>>
  /\ UNCHANGED fvars
  /\ UNCHANGED ovars
  /\ UNCHANGED mvars

\* merge_result_rows(m, d) for a returned row m and d = dict(m), a copy of it
MergeDuplicate ==
  /\ dpc = "deduped"
  /\ \E i \in DOMAIN entries :
       probe' = [index |-> i, item |-> merge_result_rows(entries[i].item, entries[i].item)]
  /\ dpc' = "remerged"
  /\ UNCHANGED <<results, fuzzy_title, fuzzy_threshold, entries>>
  /\ UNCHANGED fvars
  /\ UNCHANGED ovars
  /\ UNCHANGED mvars

DedupeNext == Deduplicate \/ MergeDuplicate

SpecDedupe == DedupeInit /\ [][DedupeNext]_vars

(***************************************************************************)
(* The fuzzy pass at its threshold: two DOI-less rows whose titles are the *)
(* first a and the first b words of a vocabulary, so that their similarity *)
(* is min(a, b) / max(a, b)                                                *)
(***************************************************************************)
\* the longest title, in words, that is explored
MaxWords == 10

\* the k-th word: three times the k-th letter
Word(k) == <<Lowers[k], Lowers[k], Lowers[k]>>

\* a row as search_google or search_arxiv builds it, its title the first k words
TitledRow(k, source) ==
  [Source |-> PyStr(source),
   Title |-> PyStr(Join([i \in 1..k |-> Word(i)], <<" ">>)),
   Authors |-> PyStr(<<"S","e","e"," ","l","i","n","k">>),
   Year |-> PyNone,
   Venue |-> PyStr(<<>>),
   URL |-> PyStr(<<"u">> \o IntToStr(k)),
   PDF |-> PyStr(<<>>),
   DOI |-> PyStr(<<>>),
   Cites |-> PyInt(0),
   Abstract |-> PyStr(<<>>),
   OA |-> PyBool(FALSE)]

FuzzyInit ==
  /\ \E a, b \in 1..MaxWords :
       \E s \in {<<"G","o","o","g","l","e">>, ArXiv} :
         results = <<TitledRow(a, <<"G","o","o","g","l","e">>), TitledRow(b, s)>>
  /\ fuzzy_title = TRUE
  /\ fuzzy_threshold \in { Frac(p, 100) : p \in ThresholdPcts }
  /\ entries = <<>>
  /\ probe = NoProbe
  /\ dpc = "input"
  /\ FetchIdle
  /\ ViewIdle
  /\ PageIdle
  /\ ClientIdle
  /\ RequestIdle
  /\ ExtraIdle

SpecFuzzy == FuzzyInit /\ [][DedupeNext]_vars

(***************************************************************************)
(* search_all_sources: one call, its tasks completing in any order         *)
(***************************************************************************)
EndpointBehaviours == {Healthy, RecoversOnRetry, RateLimited, Failing}

Init ==
  /\ sources \in DistinctSeqs(SourceNames, MaxSources)
  /\ api_keys \in {KeysAll, KeysBlank, PyNone}
  /\ progress_callback \in BOOLEAN
  /\ endpoints \in [DOMAIN sources -> EndpointBehaviours]
  /\ pending = {}
  /\ all_results = <<>>
  /\ source_stats = <<>>
  /\ completed = 0
  /\ progress = <<>>
  /\ pc = "call"
  /\ DedupeIdle
  /\ ViewIdle
  /\ PageIdle
  /\ ClientIdle
  /\ RequestIdle
  /\ ExtraIdle

\* lines 235-259: the tasks are created; with no source the call returns [], []
Launch ==
  /\ pc = "call"
  /\ pending' = DOMAIN sources
  /\ pc' = IF Len(sources) = 0 THEN "returned" ELSE "gathering"
  /\ UNCHANGED <<sources, api_keys, progress_callback, endpoints,
                 all_results, source_stats, completed, progress>>
  /\ UNCHANGED dvars
  /\ UNCHANGED ovars
  /\ UNCHANGED mvars

\* lines 261-286 for the task that completes next, given what awaiting it gives;
\* after the last one the stats are sorted and the call returns
Consume(i, outcome) ==
  /\ all_results' = Extend(all_results, outcome)
  /\ completed' = completed + 1
  /\ progress' = IF progress_callback
                 THEN Append(progress, ProgressValue(completed + 1, Len(sources)))
                 ELSE progress
  /\ pending' = pending \ {i}
  /\ IF pending = {i}
     THEN /\ source_stats' = SortStats(Append(source_stats, SourceStat(outcome)))
          /\ pc' = "returned"
     ELSE /\ source_stats' = Append(source_stats, SourceStat(outcome))
          /\ pc' = "gathering"

TaskCompletes(i) ==
  /\ pc = "gathering"
  /\ i \in pending
  /\ Consume(i, run_source(sources[i], api_keys, endpoints[i]))
  /\ UNCHANGED <<sources, api_keys, progress_callback, endpoints>>
  /\ UNCHANGED dvars
  /\ UNCHANGED ovars
  /\ UNCHANGED mvars

Next == Launch \/ \E i \in DOMAIN sources : TaskCompletes(i)

Spec == Init /\ [][Next]_vars

(***************************************************************************)
(* app.py main: a search from the page, then the frame that is rendered    *)
(***************************************************************************)
\* the text of the query box
Queries == {<<"f","o","o">>, <<" ","D","e","e","p"," "," ","l","e","a","r","n","i","n","g"," ">>}

SortModes == {"Relevance score", "Most cited", "Newest first", "Oldest first", "Title A-Z"}

\* Smart deduplication, Fuzzy title merge and its threshold
DedupeSettings ==
  { [dedupe_enabled |-> FALSE, fuzzy_dedupe |-> FALSE, fuzzy_threshold |-> Frac(90, 100)],
    [dedupe_enabled |-> TRUE, fuzzy_dedupe |-> FALSE, fuzzy_threshold |-> Frac(90, 100)] }
  \cup { [dedupe_enabled |-> TRUE, fuzzy_dedupe |-> TRUE, fuzzy_threshold |-> Frac(p, 100)] :
           p \in ThresholdPcts }

\* the filter widgets at their widest, and with one of them tightened
NoFilter ==
  [year_range |-> <<1990, CURRENT_YEAR>>, min_citations |-> 0, oa_filter |-> FALSE,
   min_source_count |-> 1, title_filter |-> <<>>, author_filter |-> <<>>, venue_filter |-> <<>>]

FilterSettings ==
  { NoFilter,
    [NoFilter EXCEPT !.year_range = <<2020, 2021>>],
    [NoFilter EXCEPT !.min_citations = 10],
    [NoFilter EXCEPT !.oa_filter = TRUE],
    [NoFilter EXCEPT !.min_source_count = 2],
    [NoFilter EXCEPT !.title_filter = <<"f","o","o">>] }

\* the dict render_controls returns
ControlsOf(d, m, f) ==
  [dedupe_enabled |-> d.dedupe_enabled, fuzzy_dedupe |-> d.fuzzy_dedupe,
   fuzzy_threshold |-> d.fuzzy_threshold, sort_mode |-> m,
   score_weights |-> Weights(55, 25, 20),
   year_range |-> f.year_range, min_citations |-> f.min_citations,
   oa_filter |-> f.oa_filter, min_source_count |-> f.min_source_count,
   title_filter |-> f.title_filter, author_filter |-> f.author_filter,
   venue_filter |-> f.venue_filter]

Controls ==
  { ControlsOf(d, m, f) : d \in DedupeSettings, m \in SortModes, f \in FilterSettings }

\* perform_search with the button pressed: the call of search_all_sources with the
\* page's credentials and callback, every endpoint answering
PipelineInit ==
  /\ sources \in DistinctSeqs(SourceNames, MaxSources)
  /\ api_keys = KeysAll
  /\ progress_callback = TRUE
  /\ endpoints = [i \in DOMAIN sources |-> Healthy]
  /\ pending = {}
  /\ all_results = <<>>
  /\ source_stats = <<>>
  /\ completed = 0
  /\ progress = <<>>
  /\ pc = "call"
  /\ \E text \in Queries : query = clean_text(PyStr(text))
  /\ controls = NoControls
  /\ view = <<>>
  /\ scored = <<>>
  /\ DedupeIdle
  /\ PageIdle
  /\ ClientIdle
  /\ RequestIdle
  /\ ExtraIdle

\* the call has returned: perform_search stores raw_results and main goes on
\* (lines 829-867) with the controls of this rerun.  A later rerun with other
\* controls renders from the same stored raw_results.
\* main lines 849-867 on the prepared frame df: the filters, then the sort
RenderFrame(df, d) ==
  \E m \in SortModes, f \in FilterSettings :
    /\ controls' = ControlsOf(d, m, f)
    /\ view' = apply_sort(FilterRows(df, ControlsOf(d, m, f), Len(sources)), m)

Render ==
  /\ pc = "returned"
  /\ \E d \in DedupeSettings :
       RenderFrame(prepare_dataframe(DedupedRows(all_results, d), query, Weights(55, 25, 20)), d)
  /\ pc' = "rendered"
  /\ UNCHANGED <<query, scored, sources, api_keys, progress_callback, endpoints, pending,
                 all_results, source_stats, completed, progress>>
  /\ UNCHANGED dvars
  /\ UNCHANGED ovars

PipelineNext == Launch \/ (\E i \in DOMAIN sources : TaskCompletes(i)) \/ Render

SpecPipeline == PipelineInit /\ [][PipelineNext]_vars

(***************************************************************************)
(* prepare_dataframe on its own: main, lines 837-847, for any list of rows *)
(* over the pool and three more rows                                       *)
(***************************************************************************)
\* Crossref: a paper of 1887 with 1200 citations
P9 ==
  [Source |-> PyStr(<<"C","r","o","s","s","r","e","f">>),
   Title |-> PyStr(<<"F","o","o"," ","o","l","d">>),
   Authors |-> PyStr(<<"A"," ","B">>),
   Year |-> PyInt(1887),
   Venue |-> PyStr(<<"J">>),
   URL |-> PyStr(<<"u","9">>),
   PDF |-> PyStr(<<>>),
   DOI |-> PyStr(<<"1","0",".","3","/","z">>),
   Cites |-> PyInt(1200),
   Abstract |-> PyStr(<<>>),
   OA |-> PyBool(FALSE)]

\* OpenAlex: an open-access paper dated next year
P10 ==
  [Source |-> PyStr(<<"O","p","e","n","A","l","e","x">>),
   Title |-> PyStr(<<"N","e","x","t"," ","y","e","a","r">>),
   Authors |-> PyStr(<<"N">>),
   Year |-> PyInt(CURRENT_YEAR + 1),
   Venue |-> PyStr(<<"J">>),
   URL |-> PyStr(<<"u","1","0">>),
   PDF |-> PyStr(<<>>),
   DOI |-> PyStr(<<"1","0",".","4","/","w">>),
   Cites |-> PyInt(0),
   Abstract |-> PyStr(<<>>),
   OA |-> PyBool(TRUE)]

\* Google: a title of short tokens only and no link
P11 ==
  [Source |-> PyStr(<<"G","o","o","g","l","e">>),
   Title |-> PyStr(<<"a","b">>),
   Authors |-> PyStr(<<"S","e","e"," ","l","i","n","k">>),
   Year |-> PyNone,
   Venue |-> PyStr(<<>>),
   URL |-> PyStr(<<>>),
   PDF |-> PyStr(<<>>),
   DOI |-> PyStr(<<>>),
   Cites |-> PyInt(0),
   Abstract |-> PyStr(<<>>),
   OA |-> PyBool(FALSE)]

FramePool == RowPool \cup {P9, P10, P11}

\* the longest list of rows handed to prepare_dataframe that is explored
MaxFrameRows == 2

\* the sliders of the three weights, in hundredths, and no weights at all
WeightSettings ==
  {PyNone, Weights(55, 25, 20), Weights(0, 0, 100), Weights(5, 20, 5), Weights(0, 0, 0)}

\* the controls that deduplicate_results and prepare_dataframe read
FrameControls ==
  { [dedupe_enabled |-> d.dedupe_enabled, fuzzy_dedupe |-> d.fuzzy_dedupe,
     fuzzy_threshold |-> d.fuzzy_threshold, score_weights |-> w] :
    d \in DedupeSettings, w \in WeightSettings }

PrepareInit ==
  /\ results \in SeqsUpTo(FramePool, MaxFrameRows)
  /\ \E text \in Queries : query = clean_text(PyStr(text))
  /\ controls \in FrameControls
  /\ view = <<>>
  /\ scored = <<>>
  /\ fuzzy_title = FALSE
  /\ fuzzy_threshold = Frac(90, 100)
  /\ entries = <<>>
  /\ probe = NoProbe
  /\ dpc = "frame"
  /\ FetchIdle
  /\ PageIdle
  /\ ClientIdle
  /\ RequestIdle
  /\ ExtraIdle

\* what compute_relevance_score returns for each row of the frame (line 464),
\* before round(, 4)
RawScores(rows, query_text, score_weights) ==
  [i \in DOMAIN rows |->
     compute_relevance_score(query_text, WithRecordId(NormalizedRow(rows[i])), score_weights)]

PreparedFrom(rows) ==
  /\ view' = prepare_dataframe(rows, query, controls.score_weights)
  /\ scored' = RawScores(rows, query, controls.score_weights)

\* rows = deduplicate_results(...) or raw_results; df = prepare_dataframe(rows, ...)
Prepare ==
  /\ dpc = "frame"
  /\ PreparedFrom(DedupedRows(results, controls))
  /\ dpc' = "prepared"
  /\ UNCHANGED <<results, fuzzy_title, fuzzy_threshold, entries, probe, query, controls>>
  /\ UNCHANGED fvars
  /\ UNCHANGED ovars

SpecPrepare == PrepareInit /\ [][Prepare]_vars

(***************************************************************************)
(* Properties of deduplicate_results and merge_result_rows (SpecDedupe)    *)
(***************************************************************************)
\* deduplicate_results has just returned `entries` for the input `results`
Deduped == dpc = "deduped"

\* per input row (1-based position): its normalized DOI, its title fingerprint,
\* its normalized citation count and year
InputDois == [i \in DOMAIN results |-> normalize_doi(Get(results[i], "DOI"))]
InputFingerprints == [i \in DOMAIN results |-> title_fingerprint(Get(results[i], "Title"))]
InputCites == [i \in DOMAIN results |-> normalize_int(Get(results[i], "Cites")).v]
InputYears == [i \in DOMAIN results |-> normalize_year(Get(results[i], "Year"))]

\* per input row: the returned rows that it was merged into
EntriesOf == [i \in DOMAIN results |-> { e \in DOMAIN entries : i \in entries[e].members }]

MaxOf(S) == CHOOSE m \in S : \A n \in S : n <= m

\* C6: the input rows that share a non-empty normalized DOI end up in exactly one
\* returned row, whatever their titles and positions, fuzzy on or off.
C6_SameDoiOneRecord ==
  Deduped =>
    LET doi == InputDois
        home == EntriesOf
    IN /\ \A i \in DOMAIN results : Cardinality(home[i]) = 1
       /\ \A i, j \in DOMAIN results :
            (doi[i] # <<>> /\ doi[i] = doi[j]) => home[i] = home[j]

\* two rows of different titles whose DOIs differ as written (resolver prefix,
\* case) and agree once normalized, with a row between them, are in one record
C6_Witness ==
  /\ Deduped
  /\ \E i, j \in DOMAIN results :
       /\ i + 1 < j
       /\ InputDois[i] # <<>> /\ InputDois[i] = InputDois[j]
       /\ Get(results[i], "DOI") # Get(results[j], "DOI")
       /\ InputFingerprints[i] # InputFingerprints[j]
       /\ EntriesOf[i] = EntriesOf[j]

\* C7: two input rows whose non-empty normalized DOIs differ are never in the same
\* returned row, fuzzy on or off, at any threshold, even with one title fingerprint.
C7_DifferentDoiNeverMerged ==
  Deduped =>
    LET doi == InputDois
        home == EntriesOf
    IN \A i, j \in DOMAIN results :
         (doi[i] # <<>> /\ doi[j] # <<>> /\ doi[i] # doi[j]) => home[i] \cap home[j] = {}

\* fuzzy on: two rows of one title fingerprint and different DOIs stay apart
C7_Witness ==
  /\ Deduped /\ fuzzy_title
  /\ \E i, j \in DOMAIN results :
       /\ InputDois[i] # <<>> /\ InputDois[j] # <<>> /\ InputDois[i] # InputDois[j]
       /\ InputFingerprints[i] # <<>> /\ InputFingerprints[i] = InputFingerprints[j]
       /\ EntriesOf[i] \cap EntriesOf[j] = {}

\* C8: two DOI-less input rows whose titles have the same non-empty title
\* fingerprint are merged into one returned row (by the exact pass: also with
\* fuzzy off).
C8_SameFingerprintMerged ==
  Deduped =>
    LET doi == InputDois
        fp == InputFingerprints
        home == EntriesOf
    IN \A i, j \in DOMAIN results :
         (doi[i] = <<>> /\ doi[j] = <<>> /\ fp[i] # <<>> /\ fp[i] = fp[j])
         => (home[i] = home[j] /\ Cardinality(home[i]) = 1)

\* fuzzy off: two DOI-less rows whose titles differ in case and punctuation only
C8_Witness ==
  /\ Deduped /\ ~fuzzy_title
  /\ \E i, j \in DOMAIN results :
       /\ InputDois[i] = <<>> /\ InputDois[j] = <<>>
       /\ Get(results[i], "Title") # Get(results[j], "Title")
       /\ InputFingerprints[i] # <<>> /\ InputFingerprints[i] = InputFingerprints[j]
       /\ EntriesOf[i] = EntriesOf[j]

\* C9: a returned row's Cites is the maximum of the normalized citation counts of
\* the rows merged into it, and its Year the maximum of their present years, None
\* only if none of them has a year.
C9_NumericMergeMax ==
  Deduped =>
    LET cites == InputCites
        year == InputYears
    IN \A e \in DOMAIN entries :
         LET present == { year[i].v : i \in { k \in entries[e].members : year[k] # PyNone } }
         IN /\ entries[e].item["Cites"] = PyInt(MaxOf({ cites[i] : i \in entries[e].members }))
            /\ entries[e].item["Year"] = IF present = {} THEN PyNone ELSE PyInt(MaxOf(present))

\* a record merged from rows of different citation counts, one of them without a
\* year, in the exact pass and then in the fuzzy pass
C9_Witness ==
  /\ Deduped /\ fuzzy_title
  /\ \E e \in DOMAIN entries :
       /\ Cardinality(entries[e].members) = 3
       /\ \E i, j \in entries[e].members :
            /\ InputCites[i] < InputCites[j]
            /\ InputYears[i] = PyNone /\ InputYears[j] # PyNone
            /\ InputFingerprints[i] # InputFingerprints[j]

MergedFields ==
  {"Title", "Authors", "Venue", "URL", "PDF", "DOI", "Cites", "Year", "OA", "Abstract",
   "Source", "SourceCount"}

\* C10: merge_result_rows(m, d), d a copy of a returned row m, leaves every field
\* of m as it was: the text fields, Cites, Year, OA, Abstract, Source, SourceCount.
C10_MergeWithCopyUnchanged ==
  dpc = "remerged" =>
    /\ DOMAIN probe.item = DOMAIN entries[probe.index].item
    /\ \A f \in MergedFields : Get(probe.item, f) = Get(entries[probe.index].item, f)

\* the row merged with its copy came from two sources and has an abstract
C10_Witness ==
  /\ dpc = "remerged"
  /\ entries[probe.index].item["SourceCount"] = PyInt(2)
  /\ Cardinality(entries[probe.index].members) >= 2
  /\ clean_text(Get(probe.item, "Abstract")) # <<>>

(***************************************************************************)
(* Properties of search_all_sources (Spec)                                 *)
(***************************************************************************)
\* the call has returned (all_results, source_stats)
HasReturned == pc = "returned"

\* what awaiting each task gives, by position in `sources`
Outcomes == [i \in DOMAIN sources |-> run_source(sources[i], api_keys, endpoints[i])]

\* the task of sources[i] raised
TaskRaised(i) == Outcomes[i].raised

\* the task of sources[i] sent its request and make_request gave up on it
RequestFailed(i) ==
  /\ make_request(endpoints[i]) = PyNone
  /\ \/ sources[i] \in {OpenAlex, ArXiv, Crossref}
     \/ sources[i] = SemanticScholar /\ api_keys # PyNone
     \/ sources[i] = GoogleCustomSearch /\ api_keys \notin {PyNone, KeysBlank}

FetchFailed(i) == TaskRaised(i) \/ RequestFailed(i)

\* the rows the task of sources[i] returned
RowsReturned(i) == IF Outcomes[i].raised THEN <<>> ELSE Outcomes[i].rows

\* `part` occurs in `whole` as a run of consecutive elements
OccursIn(part, whole) ==
  \E k \in 0..(Len(whole) - Len(part)) : SubSeq(whole, k + 1, k + Len(part)) = part

\* C2: when the fetch of one selected source fails (its task raises, or its
\* request fails and it yields no rows), the call still returns once every task
\* has been consumed, and the returned list holds all the rows that each other
\* selected source returned.
C2_FailureKeepsOtherSources ==
  /\ (pc = "gathering" => pending # {})
  /\ HasReturned =>
       \A i \in DOMAIN sources :
         FetchFailed(i) =>
           \A j \in DOMAIN sources \ {i} : OccursIn(RowsReturned(j), all_results)

\* the call returned the rows of one source although the task of the other raised
C2_Witness ==
  /\ HasReturned
  /\ \E i, j \in DOMAIN sources :
       /\ TaskRaised(i)
       /\ RowsReturned(j) # <<>>
       /\ all_results = RowsReturned(j)
       /\ Len(source_stats) = 2
  /\ \E k \in DOMAIN source_stats : source_stats[k].status = "Error"

\* C3: every failure of a selected source (exception, timeout, non-2xx response,
\* rate-limit signal) is recorded as a stat for that source with a non-empty
\* error text, status "Error" and result_count 0.
C3_FailureRecordedAsError ==
  HasReturned =>
    \A i \in DOMAIN sources :
      FetchFailed(i) =>
        \E k \in DOMAIN source_stats :
          /\ source_stats[k].source = sources[i]
          /\ source_stats[k].error # <<>>
          /\ source_stats[k].status = "Error"
          /\ source_stats[k].result_count = 0

\* C4: for a non-empty list of selected sources the returned stats are one per
\* selected source, each with that source's own tag, in ascending order of tag.
C4_OneStatPerSourceSorted ==
  (HasReturned /\ Len(sources) >= 1) =>
    /\ Len(source_stats) = Len(sources)
    /\ \A i \in DOMAIN sources :
         Cardinality({ k \in DOMAIN source_stats : source_stats[k].source = sources[i] }) = 1
    /\ \A k \in DOMAIN source_stats :
         k < Len(source_stats) => ~StrLess(source_stats[k + 1].source, source_stats[k].source)

FracEq(a, b) == a.num * b.den = b.num * a.den
FracLess(a, b) == a.num * b.den < b.num * a.den

\* C5: a supplied progress callback is called once per consumed task, failed ones
\* included, with completed/total; the values increase strictly, lie above 0 and
\* at most at 1, and when the call returns there were n calls, the last with 1.
C5_ProgressOncePerSource ==
  progress_callback =>
    /\ Len(progress) = completed
    /\ pc \in {"gathering", "returned"} =>
         completed = Len(sources) - Cardinality(pending)
    /\ \A k \in DOMAIN progress :
         /\ FracEq(progress[k], Frac(k, Len(sources)))
         /\ FracLess(Frac(0, 1), progress[k])
         /\ ~FracLess(Frac(1, 1), progress[k])
         /\ k < Len(progress) => FracLess(progress[k], progress[k + 1])
    /\ (HasReturned /\ Len(sources) >= 1) =>
         /\ Len(progress) = Len(sources)
         /\ FracEq(progress[Len(progress)], Frac(1, 1))

\* the call returned with a callback, one task having raised and another having
\* had its request fail
C5_Witness ==
  /\ HasReturned
  /\ progress_callback
  /\ Len(progress) = 2
  /\ \E i, j \in DOMAIN sources : TaskRaised(i) /\ RequestFailed(j)

(***************************************************************************)
(* Properties of the search followed by the render (SpecPipeline)          *)
(***************************************************************************)
RECURSIVE RowsInLaunchOrder(_)
RowsInLaunchOrder(n) ==
  IF n = 0 THEN <<>> ELSE RowsInLaunchOrder(n - 1) \o RowsReturned(n)

\* C1: for fixed per-source result lists the rendered frame is the same for
\* every completion order of the tasks: it is the frame of the order in which
\* the tasks were launched, row by row and field by field.
C1_CompletionOrderIrrelevant ==
  pc = "rendered" =>
    view = View(RowsInLaunchOrder(Len(sources)), query, controls, Len(sources))

\* per input row: its source tag
InputTags == [i \in DOMAIN results |-> clean_text(Get(results[i], "Source"))]

\* C11: every returned row has SourceCount >= 1, SourceCount is the number of
\* distinct source tags of the input rows merged into it, and Source lists
\* exactly those tags, fuzzy on or off.
C11_SourceCountIsDistinctTags ==
  Deduped =>
    LET tag == InputTags
    IN \A e \in DOMAIN entries :
         LET tags == { tag[i] : i \in entries[e].members }
         IN /\ Get(entries[e].item, "SourceCount") = PyInt(Cardinality(tags))
            /\ Cardinality(tags) >= 1
            /\ SourceTags(Get(entries[e].item, "Source")) = tags

\* a record merged from three rows of two sources, one of them joined in the
\* fuzzy pass
C11_Witness ==
  /\ Deduped /\ fuzzy_title
  /\ \E e \in DOMAIN entries :
       /\ Cardinality(entries[e].members) = 3
       /\ Cardinality({ InputTags[i] : i \in entries[e].members }) = 2
       /\ entries[e].item["SourceCount"] = PyInt(2)
       /\ \E i, j \in entries[e].members : InputFingerprints[i] # InputFingerprints[j]

(***************************************************************************)
(* Properties of the fuzzy pass at its threshold (SpecFuzzy)               *)
(***************************************************************************)
\* the title-fingerprint tokens of the input rows
InputTokens == [i \in DOMAIN results |-> Range(SplitWs(InputFingerprints[i]))]

\* C12: with fuzzy_title on and threshold t, two DOI-less rows that survive the
\* exact pass (their fingerprints differ) are merged exactly when
\* |A n B| / |A u B| >= t for their token sets A and B: a similarity equal to
\* the threshold merges, a smaller one does not.
C12_MergedIffJaccardAtLeastThreshold ==
  (Deduped /\ fuzzy_title /\ Len(results) = 2) =>
    LET A == InputTokens[1]
        B == InputTokens[2]
    IN (InputDois[1] = <<>> /\ InputDois[2] = <<>> /\ InputFingerprints[1] # InputFingerprints[2]) =>
         (Len(entries) = 1 <=>
            Cardinality(A \cap B) * fuzzy_threshold.den
              >= fuzzy_threshold.num * Cardinality(A \cup B))

\* at t = 0.90, titles of 9 and of 10 words with 9 in common (similarity exactly
\* 0.90) were merged into one record
C12_Witness ==
  /\ Deduped /\ fuzzy_title
  /\ fuzzy_threshold = Frac(90, 100)
  /\ Len(results) = 2
  /\ Cardinality(InputTokens[1] \cap InputTokens[2]) = 9
  /\ Cardinality(InputTokens[1] \cup InputTokens[2]) = 10
  /\ Len(entries) = 1
  /\ entries[1].members = {1, 2}

(***************************************************************************)
(* Properties of prepare_dataframe and of what it calls (SpecPrepare)      *)
(***************************************************************************)
Prepared == dpc = "prepared"

\* C13: for every row and every triple of non-negative weights,
\* compute_relevance_score returns a value in [0, 1.08] (in millionths here).
C13_ScoreWithinRange ==
  Prepared => \A i \in DOMAIN scored : 0 <= scored[i] /\ scored[i] <= 1080000

\* C14: in the rendered frame two rows that tie on the keys of the sort mode
\* (under "Relevance score": identical Score and identical Cites) are in
\* ascending Title order, whatever their order in the input of apply_sort.
C14_TiesInTitleOrder ==
  pc = "rendered" =>
    \A k \in DOMAIN view :
      \A l \in DOMAIN view :
        (/\ k < l
         /\ ~SortsBefore(view[k], view[l], controls.sort_mode)
         /\ ~SortsBefore(view[l], view[k], controls.sort_mode))
        => ~StrLess(view[l].Title.v, view[k].Title.v)

\* the frame of the rendered state before the masks of main are applied
FrameBeforeFilters ==
  prepare_dataframe(DedupedRows(all_results, controls), query, controls.score_weights)

\* the year of the row is absent or lies in the year range of the controls
YearInRange(row) ==
  \/ row.Year = PyNone
  \/ controls.year_range[1] <= row.Year.v /\ row.Year.v <= controls.year_range[2]

\* no mask but the year range can remove a row
OnlyYearFilter ==
  /\ controls.min_citations = 0
  /\ controls.min_source_count = 1
  /\ ~controls.oa_filter
  /\ controls.title_filter = <<>> /\ controls.author_filter = <<>> /\ controls.venue_filter = <<>>

\* C15: a row without a year passes the year-range filter for every range; a row
\* with a year passes it iff year_start <= year <= year_end.
C15_YearFilter ==
  pc = "rendered" =>
    /\ \A k \in DOMAIN view : YearInRange(view[k])
    /\ OnlyYearFilter =>
         LET df == FrameBeforeFilters
         IN \A i \in DOMAIN df : YearInRange(df[i]) <=> (\E k \in DOMAIN view : view[k] = df[i])

\* under the range [2020, 2021] the frame held a row without a year, which was
\* kept, a row of 2021, which was kept, and a row of 2018, which was removed
C15_Witness ==
  /\ pc = "rendered"
  /\ controls.year_range = <<2020, 2021>>
  /\ \E k \in DOMAIN view : view[k].Year = PyNone
  /\ \E k \in DOMAIN view : view[k].Year = PyInt(2021)
  /\ \E i \in DOMAIN all_results : Get(all_results[i], "Year") = PyInt(2018)
  /\ \A k \in DOMAIN view : view[k].Year # PyInt(2018)
  /\ ~controls.dedupe_enabled

(***************************************************************************)
(* app.py perform_search: one rerun of the page, from the guards to the    *)
(* session writes                                                          *)
(***************************************************************************)
\* what the query box can hold
QueryTexts == {<<>>, <<" ", "\t", " ">>, <<" ", "f", "o", "o", " ">>}

\* the session before the rerun: fresh, or holding an earlier search for "old"
EarlierSession ==
  [raw_results |-> ArXivRows,
   source_stats |-> SortStats(<<SourceStat(run_source(ArXiv, KeysAll, Healthy))>>)]

\* perform_search with the button pressed and no query would go on as well
ShouldSearch_button_only(input) == input.search_btn

\* lines 622-627: the two early returns
ShouldSearch(input) == input.search_btn /\ clean_text(PyStr(input.query)) # <<>>

SearchInit ==
  /\ search_input \in [query : QueryTexts, search_btn : BOOLEAN]
  /\ \/ session = EmptySession /\ query = <<>>
     \/ session = EarlierSession /\ query = <<"o", "l", "d">>
  /\ sources \in DistinctSeqs(SourceNames, MaxSources)
  /\ api_keys = KeysAll
  /\ progress_callback = TRUE
  /\ endpoints = [i \in DOMAIN sources |-> Healthy]
  /\ pending = {}
  /\ all_results = <<>>
  /\ source_stats = <<>>
  /\ completed = 0
  /\ progress = <<>>
  /\ pc = "rerun"
  /\ controls = NoControls
  /\ view = <<>>
  /\ scored = <<>>
  /\ DedupeIdle
  /\ ClientIdle
  /\ RequestIdle
  /\ ExtraIdle

\* lines 621-627: perform_search returns at once, or goes on to call
\* search_all_sources
PerformSearch ==
  /\ pc = "rerun"
  /\ pc' = IF ShouldSearch(search_input) THEN "call" ELSE "skipped"
  /\ UNCHANGED <<sources, api_keys, progress_callback, endpoints, pending,
                 all_results, source_stats, completed, progress>>
  /\ UNCHANGED dvars
  /\ UNCHANGED mvars
  /\ UNCHANGED ovars

\* lines 645-647: the call has returned and its results go to the session
StoreResults ==
  /\ pc = "returned"
  /\ session' = [raw_results |-> all_results, source_stats |-> source_stats]
  /\ query' = clean_text(PyStr(search_input.query))
  /\ pc' = "stored"
  /\ UNCHANGED <<sources, api_keys, progress_callback, endpoints, pending,
                 all_results, source_stats, completed, progress>>
  /\ UNCHANGED <<controls, view, scored, search_input>>
  /\ UNCHANGED ivars
  /\ UNCHANGED xvars
  /\ UNCHANGED rvars
  /\ UNCHANGED dvars

SearchNext ==
  PerformSearch \/ Launch \/ (\E i \in DOMAIN sources : TaskCompletes(i)) \/ StoreResults

SpecSearch == SearchInit /\ [][SearchNext]_vars

\* search_all_sources has been called in this rerun
SearchCalled == pc \in {"call", "gathering", "returned", "stored"}

NoQueryOrNoPress ==
  clean_text(PyStr(search_input.query)) = <<>> \/ ~search_input.search_btn

\* C16: with an empty or whitespace-only query, or with the Search button not
\* pressed, perform_search never calls search_all_sources, no source task is
\* started, and the session's raw_results, source_stats and last_query stay as
\* they were.
C16_NoSearchWithoutQuery ==
  [][NoQueryOrNoPress =>
       /\ ~SearchCalled'
       /\ pending' = {} /\ completed' = 0 /\ progress' = <<>>
       /\ session' = session
       /\ query' = query]_vars

\* the button was pressed on a whitespace-only query while the session held the
\* earlier search: perform_search has returned and the session still holds it
C16_Witness ==
  /\ pc = "skipped"
  /\ search_input.search_btn
  /\ search_input.query = <<" ", "\t", " ">>
  /\ session = EarlierSession
  /\ query = <<"o", "l", "d">>

(***************************************************************************)
(* search_sources.py: a provider client on one response body, item by item *)
(***************************************************************************)
\* a JSON array
List(s) == [t |-> "list", v |-> s]

\* dict.get(key, default)
GetOr(d, k, default) == IF k \in DOMAIN d THEN d[k] ELSE default

\* the default {} of item.get(key, {})
EmptyDict == Dict(<<>>)

CommaSep == <<","," ">>

\* [author.get("name", "") for author in ... if author.get("name")]
NamesOf(authors) ==
  LET named == SelectSeq(authors, LAMBDA a : Truthy(Get(a.v, "name")))
  IN [i \in DOMAIN named |-> ToStr(GetOr(named[i].v, "name", PyStr(<<>>)))]

\* lines 52-67: the row built from one item of "data"
SemanticScholarPdf(item) ==
  IF Truthy(Get(item, "openAccessPdf")) THEN Get(item.openAccessPdf.v, "url") ELSE PyNone

SemanticScholarRow(item) ==
  [Source |-> PyStr(SemanticScholar),
   Title |-> Get(item, "title"),
   Authors |-> PyStr(Join(NamesOf(GetOr(item, "authors", List(<<>>)).v), CommaSep)),
   Year |-> normalize_year(Get(item, "year")),
   Venue |-> Get(item, "venue"),
   URL |-> Get(item, "url"),
   PDF |-> SemanticScholarPdf(item),
   DOI |-> Get(GetOr(item, "externalIds", EmptyDict).v, "DOI"),
   Cites |-> normalize_int(GetOr(item, "citationCount", PyInt(0))),
   Abstract |-> Get(item, "abstract"),
   OA |-> IF Truthy(GetOr(item, "isOpenAccess", PyBool(FALSE)))
          THEN item.isOpenAccess
          ELSE PyBool(Truthy(SemanticScholarPdf(item)))]

\* building the row raises: "authors" is null (not iterable) or "externalIds"
\* is null (None has no get)
SemanticScholarRaises(item) ==
  \/ GetOr(item, "authors", List(<<>>)).t # "list"
  \/ GetOr(item, "externalIds", EmptyDict).t # "dict"

\* [a.get("author", {}).get("display_name", "") for a in ... if a.get("author")]
DisplayNamesOf(authorships) ==
  LET known == SelectSeq(authorships, LAMBDA a : Truthy(Get(a.v, "author")))
  IN [i \in DOMAIN known |-> ToStr(GetOr(known[i].v.author.v, "display_name", PyStr(<<>>)))]

\* lines 90-106: the row built from one item of "results"
OpenAlexRow(item) ==
  [Source |-> PyStr(OpenAlex),
   Title |-> Get(item, "title"),
   Authors |-> PyStr(Join(DisplayNamesOf(GetOr(item, "authorships", List(<<>>)).v), CommaSep)),
   Year |-> normalize_year(Get(item, "publication_year")),
   Venue |-> GetOr(GetOr(GetOr(item, "primary_location", EmptyDict).v, "source", EmptyDict).v,
                   "display_name", PyStr(OpenAlex)),
   URL |-> IF Truthy(Get(item, "doi")) THEN item.doi ELSE Get(item, "id"),
   PDF |-> Get(GetOr(item, "open_access", EmptyDict).v, "oa_url"),
   DOI |-> PyStr(Remove(ToStr(GetOr(item, "doi", PyStr(<<>>))), DoiHttps)),
   Cites |-> normalize_int(GetOr(item, "cited_by_count", PyInt(0))),
   Abstract |-> PyStr(<<"A","b","s","t","r","a","c","t"," ","a","v","a","i","l","a","b","l","e"," ","v","i","a"," ","s","o","u","r","c","e"," ","l","i","n","k",".">>),
   OA |-> PyBool(Truthy(GetOr(GetOr(item, "open_access", EmptyDict).v, "is_oa", PyBool(FALSE))))]

\* building the row raises: "authorships", "primary_location", its "source" or
\* "open_access" is null
OpenAlexRaises(item) ==
  \/ GetOr(item, "authorships", List(<<>>)).t # "list"
  \/ GetOr(item, "primary_location", EmptyDict).t # "dict"
  \/ /\ GetOr(item, "primary_location", EmptyDict).t = "dict"
     /\ GetOr(GetOr(item, "primary_location", EmptyDict).v, "source", EmptyDict).t # "dict"
  \/ GetOr(item, "open_access", EmptyDict).t # "dict"

\* [clean_text(f"{a.get('given', '')} {a.get('family', '')}") for a in ...]
FullNamesOf(author) ==
  [i \in DOMAIN author |->
     clean_text(PyStr(ToStr(GetOr(author[i].v, "given", PyStr(<<>>))) \o <<" ">>
                      \o ToStr(GetOr(author[i].v, "family", PyStr(<<>>)))))]

\* (item.get(key) or [fallback])[0]
FirstOr(item, k, fallback) ==
  IF Truthy(Get(item, k)) THEN item[k].v[1] ELSE PyStr(fallback)

\* date_parts = item.get("issued", {}).get("date-parts")
DateParts(item) == Get(GetOr(item, "issued", EmptyDict).v, "date-parts")

\* lines 175-194: the row built from one item of "items"
CrossrefRow(item) ==
  [Source |-> PyStr(Crossref),
   Title |-> FirstOr(item, "title", <<"N","o"," ","t","i","t","l","e">>),
   Authors |-> PyStr(Join(FullNamesOf(GetOr(item, "author", List(<<>>)).v), CommaSep)),
   Year |-> normalize_year(IF Truthy(DateParts(item)) THEN DateParts(item).v[1].v[1] ELSE PyNone),
   Venue |-> FirstOr(item, "container-title", Crossref),
   URL |-> Get(item, "URL"),
   PDF |-> PyStr(<<>>),
   DOI |-> Get(item, "DOI"),
   Cites |-> normalize_int(GetOr(item, "is-referenced-by-count", PyInt(0))),
   Abstract |-> PyStr(<<>>),
   OA |-> PyBool(FALSE)]

\* building the row raises: "author" or "issued" is null, or the first date part
\* is an empty list (index out of range)
CrossrefRaises(item) ==
  \/ GetOr(item, "author", List(<<>>)).t # "list"
  \/ GetOr(item, "issued", EmptyDict).t # "dict"
  \/ /\ GetOr(item, "issued", EmptyDict).t = "dict"
     /\ Truthy(DateParts(item))
     /\ DateParts(item).v[1].v = <<>>

ItemRaises(source, item) ==
  CASE source = SemanticScholar -> SemanticScholarRaises(item)
    [] source = OpenAlex -> OpenAlexRaises(item)
    [] source = Crossref -> CrossrefRaises(item)

ItemRow(source, item) ==
  CASE source = SemanticScholar -> SemanticScholarRow(item)
    [] source = OpenAlex -> OpenAlexRow(item)
    [] source = Crossref -> CrossrefRow(item)

\* results = []; try: for item in ...: results.append({...}); except Exception: print;
\* return results.  The try encloses the loop: the first item that raises ends it.
RECURSIVE ParseItems(_, _)
ParseItems(source, items) ==
  IF items = <<>> \/ ItemRaises(source, Head(items)) THEN <<>>
  ELSE <<ItemRow(source, Head(items))>> \o ParseItems(source, Tail(items))

\* the client of `source` on an endpoint whose response body holds `items`
search_items(source, endpoint, items) == RowsOf(make_request(endpoint), ParseItems(source, items))

\* Semantic Scholar items: complete, sparse, and one whose externalIds is null
S1 ==
  [title |-> PyStr(<<"F","o","o"," ","B","a","r">>), authors |-> List(<<>>), year |-> PyNone,
   externalIds |-> Dict([DOI |-> PyStr(<<"h","t","t","p","s",":","/","/","d","o","i",".","o","r","g","/","1","0",".","1","/","X">>)]),
   citationCount |-> PyInt(12), abstract |-> PyStr(<<"a","b","c">>), isOpenAccess |-> PyBool(TRUE)]
S2 ==
  [title |-> PyStr(<<"S"," ","t","w","o">>),
   authors |-> List(<<Dict([name |-> PyStr(<<"A">>)]), Dict([name |-> PyStr(<<"B">>)])>>),
   year |-> PyStr(<<"2","0","1","9">>), openAccessPdf |-> Dict([url |-> PyStr(<<"p">>)])]
S3 == [title |-> PyStr(<<"S"," ","b","a","d">>), externalIds |-> PyNone]

\* OpenAlex items: complete, sparse, and one whose primary_location is null
O1 ==
  [title |-> PyStr(<<"A"," ","o","n","e">>), publication_year |-> PyInt(2020),
   primary_location |-> Dict([source |-> Dict([display_name |-> PyStr(<<"K">>)])]),
   doi |-> PyStr(<<"h","t","t","p","s",":","/","/","d","o","i",".","o","r","g","/","1","0",".","2","/","y">>), id |-> PyStr(<<"w","1">>),
   open_access |-> Dict([is_oa |-> PyBool(TRUE), oa_url |-> PyStr(<<"p">>)]),
   cited_by_count |-> PyInt(7),
   authorships |-> List(<<Dict([author |-> Dict([display_name |-> PyStr(<<"C"," ","D">>)])])>>)]
O2 == [title |-> PyStr(<<"B"," ","t","w","o">>), id |-> PyStr(<<"w","2">>)]
O3 == [title |-> PyStr(<<"C"," ","b","a","d">>), id |-> PyStr(<<"w","3">>), primary_location |-> PyNone]

\* Crossref items: complete, sparse, one whose first date part is empty and one
\* whose issued is null
C1Item ==
  [title |-> List(<<PyStr(<<"F","o","o">>)>>),
   author |-> List(<<Dict([given |-> PyStr(<<"A">>), family |-> PyStr(<<"B">>)])>>),
   issued |-> Dict("date-parts" :> List(<<List(<<PyInt(2020), PyInt(1)>>)>>)),
   URL |-> PyStr(<<"u","1">>), DOI |-> PyStr(<<"1","0",".","1","/","x">>)]
   @@ ("container-title" :> List(<<PyStr(<<"J">>)>>))
   @@ ("is-referenced-by-count" :> PyInt(5))
C2Item == [DOI |-> PyStr(<<"1","0",".","9","/","q">>)]
C3Item == [title |-> List(<<PyStr(<<"C"," ","b","a","d">>)>>), issued |-> Dict("date-parts" :> List(<<List(<<>>)>>))]
C4Item == [title |-> List(<<PyStr(<<"C"," ","n","u","l","l">>)>>), issued |-> PyNone]

\* the Crossref item of a paper issued in 1887: its row is P9
C9Item ==
  [title |-> List(<<PyStr(<<"F","o","o"," ","o","l","d">>)>>),
   author |-> List(<<Dict([given |-> PyStr(<<"A">>), family |-> PyStr(<<"B">>)])>>),
   issued |-> Dict("date-parts" :> List(<<List(<<PyInt(1887)>>)>>)),
   URL |-> PyStr(<<"u","9">>), DOI |-> PyStr(<<"1","0",".","3","/","z">>)]
   @@ ("container-title" :> List(<<PyStr(<<"J">>)>>))
   @@ ("is-referenced-by-count" :> PyInt(1200))

ItemPool(source) ==
  CASE source = SemanticScholar -> {S1, S2, S3}
    [] source = OpenAlex -> {O1, O2, O3}
    [] source = Crossref -> {C1Item, C2Item, C3Item, C4Item, C9Item}

MaxItems == 3

\* a client has its response: a body whose items may be malformed, from an
\* endpoint that answers or one that does not
ProviderInit ==
  /\ sources \in {<<SemanticScholar>>, <<OpenAlex>>, <<Crossref>>}
  /\ endpoints \in {<<Healthy>>, <<Failing>>}
  /\ body \in SeqsUpTo(ItemPool(sources[1]), MaxItems)
  /\ parsed = <<>>
  /\ ipc = "response"
  /\ api_keys = PyNone
  /\ progress_callback = FALSE
  /\ pending = {}
  /\ all_results = <<>>
  /\ source_stats = <<>>
  /\ completed = 0
  /\ progress = <<>>
  /\ pc = "idle"
  /\ PageIdle
  /\ RequestIdle
  /\ ExtraIdle
  /\ DedupeIdle
  /\ ViewIdle

\* the client runs to its return
ClientReturns ==
  /\ ipc = "response"
  /\ parsed' = search_items(sources[1], endpoints[1], body)
  /\ ipc' = "returned"
  /\ UNCHANGED <<search_input, session, body>>
  /\ UNCHANGED rvars
  /\ UNCHANGED xvars
  /\ UNCHANGED dvars
  /\ UNCHANGED fvars
  /\ UNCHANGED mvars

SpecProvider == ProviderInit /\ [][ClientReturns]_vars

\* the rows of the items that map without raising, in the order of the body
WellFormedRows(source, items) ==
  LET good == SelectSeq(items, LAMBDA item : ~ItemRaises(source, item))
  IN [i \in DOMAIN good |-> ItemRow(source, good[i])]

\* C17: when an item of a response raises while it is mapped, only that item is
\* dropped: the provider function returns the rows of every other item of the
\* response, those before it and those after it.
C17_OnlyMalformedItemDropped ==
  (ipc = "returned" /\ endpoints[1] = Healthy) => parsed = WellFormedRows(sources[1], body)

(***************************************************************************)
(* search_sources.py make_request: one call, await by await                *)
(***************************************************************************)
\* what requests.get does on one attempt: a status code, or it raises
Statuses == {"200", "429", "503", "500", "timeout"}

Scripts == [1..retries -> Statuses]

RECURSIVE Pow2(_)
Pow2(n) == IF n = 0 THEN 1 ELSE 2 * Pow2(n - 1)

\* every backoff lasting as long as the first
BackoffSeconds_flat(n) == 2

\* line 24: asyncio.sleep(2 ** (attempt + 1))
BackoffSeconds(n) == Pow2(n + 1)

RequestInit ==
  /\ endpoints \in { <<script>> : script \in Scripts }
  /\ attempt = 0
  /\ sent = 0
  /\ waits = <<>>
  /\ response = PyNone
  /\ rpc = "request"
  /\ sources = <<>>
  /\ api_keys = PyNone
  /\ progress_callback = FALSE
  /\ pending = {}
  /\ all_results = <<>>
  /\ source_stats = <<>>
  /\ completed = 0
  /\ progress = <<>>
  /\ pc = "idle"
  /\ PageIdle
  /\ ClientIdle
  /\ ExtraIdle
  /\ DedupeIdle
  /\ ViewIdle

\* lines 14-31 for one attempt: the jitter sleep, requests.get, then the status
\* check, raise_for_status and the except clause
Answered(status) ==
  IF status \in {"429", "503"}
  THEN /\ rpc' = "backoff"
       /\ response' = response
  ELSE IF status = "200"
  THEN /\ rpc' = "done"
       /\ response' = Response
  ELSE IF attempt = retries - 1
  THEN /\ rpc' = "done"
       /\ response' = PyNone
  ELSE /\ rpc' = "pause"
       /\ response' = response

SendRequest ==
  /\ rpc = "request"
  /\ attempt < retries
  /\ sent' = sent + 1
  /\ Answered(endpoints[1][attempt + 1])
  /\ UNCHANGED <<attempt, waits>>
  /\ UNCHANGED <<search_input, session>>
  /\ UNCHANGED ivars
  /\ UNCHANGED xvars
  /\ UNCHANGED dvars
  /\ UNCHANGED fvars
  /\ UNCHANGED mvars

\* lines 24-25: the sleep after a 429 or a 503, then `continue`; after the last
\* attempt the loop ends and line 34 returns None
Backoff ==
  /\ rpc = "backoff"
  /\ waits' = Append(waits, [attempt |-> attempt, after |-> "status",
                             seconds |-> BackoffSeconds(attempt)])
  /\ attempt' = attempt + 1
  /\ rpc' = IF attempt + 1 < retries THEN "request" ELSE "done"
  /\ response' = IF attempt + 1 < retries THEN response ELSE PyNone
  /\ UNCHANGED sent
  /\ UNCHANGED <<search_input, session>>
  /\ UNCHANGED ivars
  /\ UNCHANGED xvars
  /\ UNCHANGED dvars
  /\ UNCHANGED fvars
  /\ UNCHANGED mvars

\* line 33: the sleep after an exception on an attempt that was not the last
Pause ==
  /\ rpc = "pause"
  /\ waits' = Append(waits, [attempt |-> attempt, after |-> "exception", seconds |-> 1])
  /\ attempt' = attempt + 1
  /\ rpc' = "request"
  /\ UNCHANGED <<sent, response>>
  /\ UNCHANGED <<search_input, session>>
  /\ UNCHANGED ivars
  /\ UNCHANGED xvars
  /\ UNCHANGED dvars
  /\ UNCHANGED fvars
  /\ UNCHANGED mvars

RequestNext == SendRequest \/ Backoff \/ Pause

SpecRequest == RequestInit /\ [][RequestNext]_vars

\* the event loop resumes the coroutine when its sleep is over or when the thread
\* of requests.get, which has a timeout, ends
SpecRequestLive == SpecRequest /\ WF_vars(RequestNext)

\* the sleeps that followed a 429 or a 503
StatusWaits == SelectSeq(waits, LAMBDA w : w.after = "status")

RequestWithinBounds ==
  /\ sent <= retries
  /\ \A i \in DOMAIN StatusWaits :
       /\ endpoints[1][StatusWaits[i].attempt + 1] \in {"429", "503"}
       /\ StatusWaits[i].seconds = <<2, 4, 8>>[StatusWaits[i].attempt + 1]
  /\ \A i, j \in DOMAIN StatusWaits : i < j => StatusWaits[i].seconds < StatusWaits[j].seconds
  /\ \A a \in 0..(attempt - 1) :
       endpoints[1][a + 1] \in {"429", "503"} => \E i \in DOMAIN StatusWaits : StatusWaits[i].attempt = a
  /\ rpc = "done" =>
       /\ response \in {PyNone, Response}
       /\ response = PyNone <=> \A a \in 1..retries : endpoints[1][a] # "200"
       /\ response = PyNone => RowsOf(response, OpenAlexRows) = <<>>

\* C18: one call of make_request sends at most `retries` requests; after a 429 or
\* a 503 on attempt a it sleeps 2^(a+1) seconds (2, 4, 8, strictly increasing)
\* before going on; when no attempt succeeds it returns None, which the caller
\* turns into an empty list; it returns a response or None and nothing else, and
\* every call ends.
C18_BoundedRetriesAndTermination ==
  []RequestWithinBounds /\ <>(rpc = "done")

\* the endpoint answered 429, 503, 429: three requests, sleeps of 2, 4 and 8
\* seconds, then None
C18_Witness ==
  /\ rpc = "done"
  /\ endpoints[1] = <<"429", "503", "429">>
  /\ sent = retries
  /\ [i \in DOMAIN waits |-> waits[i].seconds] = <<2, 4, 8>>
  /\ response = PyNone

\* C19: every row of the prepared frame, the rows that are scored, has a year that
\* is absent or an integer from 1900 to the current year, and a citation count
\* that is an integer not below 0.
C19_YearAndCitesInRange ==
  Prepared =>
    \A i \in DOMAIN view :
      /\ \/ view[i].Year = PyNone
         \/ /\ view[i].Year.t = "int"
            /\ 1900 <= view[i].Year.v
            /\ view[i].Year.v <= CURRENT_YEAR
      /\ view[i].Cites.t = "int"
      /\ view[i].Cites.v >= 0

\* the id the priority order gives a row of the frame
IdByPriority(row) ==
  IF normalize_doi(row.DOI) # <<>>
  THEN [kind |-> "doi", of |-> normalize_doi(row.DOI)]
  ELSE IF title_fingerprint(row.Title) # <<>>
  THEN [kind |-> "title", of |-> title_fingerprint(row.Title)]
  ELSE IF Lower(clean_text(row.URL)) # <<>>
  THEN [kind |-> "url", of |-> Lower(clean_text(row.URL))]
  ELSE [kind |-> "row", of |-> clean_text(row.Title) \o <<"|">> \o clean_text(row.Authors)]

\* C20: the RecordId of a row is "doi:" + the normalized DOI when that is not
\* empty; else "title:" + the digest of the title fingerprint when that is not
\* empty; else "url:" + the digest of the lowercased URL when that is not empty;
\* else "row:" + the digest of title + "|" + authors.  Two rows with the same
\* non-empty normalized DOI have the same RecordId, whatever their other fields.
C20_RecordIdPriority ==
  Prepared =>
    /\ \A i \in DOMAIN view : view[i].RecordId = IdByPriority(view[i])
    /\ \A i, j \in DOMAIN view :
         (normalize_doi(view[i].DOI) # <<>> /\ normalize_doi(view[i].DOI) = normalize_doi(view[j].DOI))
           => view[i].RecordId = view[j].RecordId

\* the frame holds two rows that differ in title, URL and in how the DOI is
\* written, and share the "doi:" id
C20_Witness ==
  /\ Prepared
  /\ Len(view) = 2
  /\ view[1].Title # view[2].Title
  /\ view[1].URL # view[2].URL
  /\ view[1].DOI # view[2].DOI
  /\ view[1].RecordId = view[2].RecordId
  /\ view[1].RecordId.kind = "doi"

(***************************************************************************)
(* core.py search_all_sources: the calls it hands to the executor          *)
(***************************************************************************)
CoreTags == {"crossref", "semantic", "google"}

\* the longest `sources` list that is explored
MaxSelected == 3

\* `sources`, a list of tags (repeats allowed), or None for the default
Selections == {PyNone} \cup { List(s) : s \in SeqsUpTo(CoreTags, MaxSelected) }

\* lines 15-16
EffectiveSources(chosen) ==
  IF chosen = PyNone THEN <<"crossref", "semantic", "google">> ELSE chosen.v

\* lines 24-31: crossref and semantic, and google when it is configured,
\* whatever `sources` holds
SubmitAll(google_set) ==
  <<"crossref", "semantic">> \o (IF google_set THEN <<"google">> ELSE <<>>)

\* lines 34-41: one call more for every tag found in `sources`
SubmitSelected(chosen, google_set) ==
  (IF \E i \in DOMAIN chosen : chosen[i] = "crossref" THEN <<"crossref">> ELSE <<>>)
  \o (IF \E i \in DOMAIN chosen : chosen[i] = "semantic" THEN <<"semantic">> ELSE <<>>)
  \o (IF (\E i \in DOMAIN chosen : chosen[i] = "google") /\ google_set THEN <<"google">> ELSE <<>>)

Submitted(chosen, google_set) == SubmitAll(google_set) \o SubmitSelected(chosen, google_set)

CoreInit ==
  /\ selection \in Selections
  /\ configured \in BOOLEAN
  /\ futures = <<>>
  /\ cpc = "call"
  /\ FetchIdle
  /\ DedupeIdle
  /\ ViewIdle
  /\ PageIdle
  /\ ClientIdle
  /\ RequestIdle
  /\ LaterIdle

\* one call, lines 15-52; the loop over as_completed (43-50) submits nothing
CoreSearch ==
  /\ cpc = "call"
  /\ futures' = Submitted(EffectiveSources(selection), configured)
  /\ cpc' = "returned"
  /\ UNCHANGED <<selection, configured>>
  /\ UNCHANGED yvars
  /\ UNCHANGED <<search_input, session>>
  /\ UNCHANGED ivars
  /\ UNCHANGED rvars
  /\ UNCHANGED dvars
  /\ UNCHANGED fvars
  /\ UNCHANGED mvars

SpecCore == CoreInit /\ [][CoreSearch]_vars

\* C21: core.search_all_sources submits a fetch for a source only if that source
\* is named in `sources`, and at most one fetch for each selected source.
C21_OnlySelectedOnce ==
  cpc = "returned" =>
    /\ \A i \in DOMAIN futures :
         \E k \in DOMAIN EffectiveSources(selection) : EffectiveSources(selection)[k] = futures[i]
    /\ \A i, j \in DOMAIN futures : futures[i] = futures[j] => i = j

(***************************************************************************)
(* The deduplicator on rows whose keys meet: `key = doi or title_key or     *)
(* f"row-{index}"` draws the three kinds of key from one set of strings    *)
(***************************************************************************)
\* an OpenAlex work without a DOI, "doi": null: its row has DOI str(None)
O4 == [title |-> PyStr(<<"G","r","a","p","h"," ","t","h","e","o","r","y">>), id |-> PyStr(<<"w","4">>), doi |-> PyNone]

\* Google: a page titled "None", no DOI
P12 ==
  [Source |-> PyStr(<<"G","o","o","g","l","e">>),
   Title |-> PyStr(<<"N","o","n","e">>),
   Authors |-> PyStr(<<"S","e","e"," ","l","i","n","k">>),
   Year |-> PyNone,
   Venue |-> PyStr(<<"g">>),
   URL |-> PyStr(<<"u","1","2">>),
   PDF |-> PyStr(<<>>),
   DOI |-> PyStr(<<>>),
   Cites |-> PyInt(0),
   Abstract |-> PyStr(<<>>),
   OA |-> PyBool(FALSE)]

\* Crossref: "Real", whose DOI field reads row-1
P13 ==
  [Source |-> PyStr(<<"C","r","o","s","s","r","e","f">>),
   Title |-> PyStr(<<"R","e","a","l">>),
   Authors |-> PyStr(<<"A"," ","B">>),
   Year |-> PyInt(2020),
   Venue |-> PyStr(<<"J">>),
   URL |-> PyStr(<<"u","1","3">>),
   PDF |-> PyStr(<<>>),
   DOI |-> PyStr(<<"r","o","w","-","1">>),
   Cites |-> PyInt(1),
   Abstract |-> PyStr(<<>>),
   OA |-> PyBool(FALSE)]

KeyPool == {OpenAlexRow(O4), P12, P13, P6, P11, P1, P8}

\* the longest input list over KeyPool that is explored
MaxKeyRows == 3

KeysInit ==
  /\ results \in SeqsUpTo(KeyPool, MaxKeyRows)
  /\ fuzzy_title \in BOOLEAN
  /\ fuzzy_threshold \in { Frac(p, 100) : p \in ThresholdPcts }
  /\ (~fuzzy_title => fuzzy_threshold = Frac(90, 100))
  /\ entries = <<>>
  /\ probe = NoProbe
  /\ dpc = "input"
  /\ FetchIdle
  /\ ViewIdle
  /\ PageIdle
  /\ ClientIdle
  /\ RequestIdle
  /\ ExtraIdle

SpecKeys == KeysInit /\ [][DedupeNext]_vars

\* C22: an input row with a non-empty normalized DOI and an input row without a
\* DOI are never in the same returned row, fuzzy on or off, at any threshold.
C22_DoiNeverMergedWithDoiless ==
  Deduped =>
    LET doi == InputDois
        home == EntriesOf
    IN \A i, j \in DOMAIN results :
         (doi[i] # <<>> /\ doi[j] = <<>>) => home[i] \cap home[j] = {}

\* C23: with fuzzy off, an input row with neither a DOI nor a title fingerprint
\* is alone in its returned row: its fallback key is the key of no other row.
C23_UnkeyedRowStaysAlone ==
  (Deduped /\ ~fuzzy_title) =>
    LET doi == InputDois
        fp == InputFingerprints
    IN \A i \in DOMAIN results :
         (doi[i] = <<>> /\ fp[i] = <<>>) => \E e \in DOMAIN entries : entries[e].members = {i}

(***************************************************************************)
(* The fuzzy pass on a row that is similar to several accepted rows        *)
(***************************************************************************)
\* a row as search_google builds it, its title the words numbered in ws
WordsRow(ws) ==
  [Source |-> PyStr(<<"G","o","o","g","l","e">>),
   Title |-> PyStr(Join([i \in DOMAIN ws |-> Word(ws[i])], <<" ">>)),
   Authors |-> PyStr(<<"S","e","e"," ","l","i","n","k">>),
   Year |-> PyNone,
   Venue |-> PyStr(<<>>),
   URL |-> PyStr(<<"u">> \o Join([i \in DOMAIN ws |-> IntToStr(ws[i])], <<>>)),
   PDF |-> PyStr(<<>>),
   DOI |-> PyStr(<<>>),
   Cites |-> PyInt(0),
   Abstract |-> PyStr(<<>>),
   OA |-> PyBool(FALSE)]

\* titles that overlap by halves
GreedyPool ==
  { WordsRow(ws) : ws \in {<<1, 2>>, <<3, 4>>, <<1, 2, 3, 4>>, <<1, 2, 3>>, <<5, 6>>, <<3, 4, 5, 6>>} }

\* the longest input list over GreedyPool that is explored
MaxGreedyRows == 3

GreedyInit ==
  /\ results \in DistinctSeqs(GreedyPool, MaxGreedyRows)
  /\ fuzzy_title = TRUE
  /\ fuzzy_threshold \in { Frac(p, 100) : p \in ThresholdPcts }
  /\ entries = <<>>
  /\ probe = NoProbe
  /\ dpc = "input"
  /\ FetchIdle
  /\ ViewIdle
  /\ PageIdle
  /\ ClientIdle
  /\ RequestIdle
  /\ ExtraIdle

SpecGreedy == GreedyInit /\ [][DedupeNext]_vars

\* the first input row of a returned row: the row that was accepted
FirstMember(e) == CHOOSE i \in entries[e].members : \A k \in entries[e].members : i <= k

\* the titles of input rows i and j are similar enough at the threshold
Similar(i, j) ==
  FracGeq(jaccard_similarity(TitleTokens(results[i]), TitleTokens(results[j])), fuzzy_threshold)

\* the returned rows accepted before input row i whose title is similar to i's
EarlierSimilar(i) == { e \in DOMAIN entries : FirstMember(e) < i /\ Similar(FirstMember(e), i) }

\* C24: the fuzzy pass takes the rows in order; the returned rows stand in the
\* order in which they were accepted; a row similar to no accepted row is
\* accepted and stays in the output; a row similar to several accepted rows is
\* merged into the earliest of them and into no other.
C24_FirstSimilarWins ==
  (Deduped /\ fuzzy_title) =>
    /\ \A e, f \in DOMAIN entries : e < f => FirstMember(e) < FirstMember(f)
    /\ \A i \in DOMAIN results :
         IF EarlierSimilar(i) = {}
         THEN \E e \in DOMAIN entries : FirstMember(e) = i
         ELSE \A e \in DOMAIN entries :
                i \in entries[e].members <=> (\A f \in EarlierSimilar(i) : e <= f) /\ e \in EarlierSimilar(i)

\* the third row is similar to the first and to the second, which are not similar
\* to each other: it went into the first, and the second stands alone
C24_Witness ==
  /\ Deduped /\ fuzzy_title
  /\ Len(results) = 3
  /\ Similar(1, 3) /\ Similar(2, 3) /\ ~Similar(1, 2)
  /\ Len(entries) = 2
  /\ entries[1].members = {1, 3}
  /\ entries[2].members = {2}

(***************************************************************************)
(* merge_result_rows on its own: any current and incoming row              *)
(***************************************************************************)
\* a row whose text fields are blank, None or padded with spaces
P14 ==
  [Source |-> PyStr(<<"G","o","o","g","l","e">>),
   Title |-> PyStr(<<" ", " ">>),
   Authors |-> PyStr(<<>>),
   Year |-> PyNone,
   Venue |-> PyStr(<<" ">>),
   URL |-> PyNone,
   PDF |-> PyStr(<<>>),
   DOI |-> PyStr(<<>>),
   Cites |-> PyInt(0),
   Abstract |-> PyStr(<<" ", " ", "x", " ", " ", " ", "y", " ">>),
   OA |-> PyBool(FALSE)]

MergePool == RowPool \cup {P11, P14}

MergeInit ==
  /\ \E current, incoming \in MergePool : results = <<current, incoming>>
  /\ fuzzy_title = FALSE
  /\ fuzzy_threshold = Frac(90, 100)
  /\ entries = <<>>
  /\ probe = NoProbe
  /\ dpc = "pair"
  /\ FetchIdle
  /\ ViewIdle
  /\ PageIdle
  /\ ClientIdle
  /\ RequestIdle
  /\ ExtraIdle

\* merge_result_rows(current, incoming) on current = dict(results[0]); probe.item
\* is current after the call
MergePair ==
  /\ dpc = "pair"
  /\ probe' = [index |-> 1, item |-> merge_result_rows(results[1], results[2])]
  /\ dpc' = "merged"
  /\ UNCHANGED <<results, fuzzy_title, fuzzy_threshold, entries>>
  /\ UNCHANGED fvars
  /\ UNCHANGED ovars
  /\ UNCHANGED mvars

SpecMerge == MergeInit /\ [][MergePair]_vars

Merged == dpc = "merged"

\* field f of current after the merge: current's own value unless that is empty
\* and incoming's is not
TextFieldMerged(f) ==
  IF clean_text(Get(results[1], f)) = <<>> /\ clean_text(Get(results[2], f)) # <<>>
  THEN Get(probe.item, f) = Get(results[2], f)
  ELSE Get(probe.item, f) = Get(results[1], f)

\* C25: after merge_result_rows(current, incoming), each of Title, Authors, Venue,
\* URL, PDF, DOI is current's value when that is not empty (as clean_text sees
\* it) and else incoming's (when both are empty the field stays empty); Abstract
\* is incoming's cleaned text exactly when that is strictly longer than current's
\* cleaned text, and else is untouched; OA is current.OA or incoming.OA.
C25_NonNumericMergeRules ==
  Merged =>
    /\ \A f \in {"Title", "Authors", "Venue", "URL", "PDF", "DOI"} :
         /\ TextFieldMerged(f)
         /\ clean_text(Get(results[1], f)) = <<>>
              => clean_text(Get(probe.item, f)) = clean_text(Get(results[2], f))
    /\ IF Len(clean_text(Get(results[2], "Abstract"))) > Len(clean_text(Get(results[1], "Abstract")))
       THEN Get(probe.item, "Abstract") = PyStr(clean_text(Get(results[2], "Abstract")))
       ELSE Get(probe.item, "Abstract") = Get(results[1], "Abstract")
    /\ Get(probe.item, "OA") = PyBool(Truthy(Get(results[1], "OA")) \/ Truthy(Get(results[2], "OA")))

\* current has a title and no URL, incoming has both and the longer abstract and
\* is open access: the title stayed, the URL, the abstract and OA came over
C25_Witness ==
  /\ Merged
  /\ clean_text(Get(results[1], "Title")) # <<>>
  /\ Get(results[2], "Title") # Get(results[1], "Title")
  /\ Get(probe.item, "Title") = Get(results[1], "Title")
  /\ clean_text(Get(results[1], "URL")) = <<>>
  /\ clean_text(Get(results[2], "URL")) # <<>>
  /\ Get(probe.item, "URL") = Get(results[2], "URL")
  /\ Get(probe.item, "Abstract") # Get(results[1], "Abstract")
  /\ ~Truthy(Get(results[1], "OA")) /\ Get(probe.item, "OA") = PyBool(TRUE)


\* ---------------------------------------------------------------------------
\* C26  compute_relevance_score, the weights
\* ---------------------------------------------------------------------------

\* the sum of three fractions is one
SumsToOne(w) ==
  w[1].num * w[2].den * w[3].den + w[2].num * w[1].den * w[3].den
    + w[3].num * w[1].den * w[2].den = w[1].den * w[2].den * w[3].den

\* the sum of the weights as they were supplied; no weights count as none
SuppliedSum(weights) ==
  IF weights = PyNone THEN 0 ELSE weights.v[1] + weights.v[2] + weights.v[3]

\* the score of one row when the three weights are the fractions w of one
\* denominator: the sum of its three scores, each times its weight, plus the
\* open-access bonus
ScoreUnder(w, query_text, row) ==
  (TokenScore(QueryTokens(query_text), SearchableText(row)) * w[1].num
     + CitationScore(normalize_int(Get(row, "Cites")).v) * w[2].num
     + RecencyScore(normalize_year(Get(row, "Year"))) * w[3].num) \div w[1].den
  + OaBonus(row)

\* the weights the claim names for the supplied ones
ClaimedWeights(weights) ==
  IF SuppliedSum(weights) > 0
  THEN [k \in 1..3 |-> Frac(weights.v[k], SuppliedSum(weights))]
  ELSE [k \in 1..3 |-> Frac(DefaultWeights[k], 100)]

C27_RecordIdUnique ==
  (Prepared /\ controls.dedupe_enabled) =>
    \A i, j \in DOMAIN view : i # j => view[i].RecordId # view[j].RecordId


(***************************************************************************)
(* deduplicate_results applied to its own output                           *)
(***************************************************************************)
\* rows = deduplicate_results(rows, fuzzy_title=..., fuzzy_threshold=...) on the
\* rows a first call returned: results is now that first output, entries the
\* outcome of the second call
DeduplicateAgain ==
  /\ dpc = "deduped"
  /\ results' = Items(entries)
  /\ entries' = DedupeEntries(Items(entries), fuzzy_title, fuzzy_threshold)
  /\ dpc' = "again"
  /\ UNCHANGED <<fuzzy_title, fuzzy_threshold, probe>>
  /\ UNCHANGED fvars
  /\ UNCHANGED ovars
  /\ UNCHANGED mvars

AgainNext == Deduplicate \/ DeduplicateAgain

SpecAgain == DedupeInit /\ [][AgainNext]_vars

\* C28: deduplicate_results applied, with the same fuzzy settings, to its own
\* output returns the same number of records with the same field values, Source
\* and SourceCount among them.
C28_Idempotent ==
  dpc = "again" => Items(entries) = results


(***************************************************************************)
(* deduplicate_results on objects.  A row dict is an object behind a        *)
(* reference; a list holds references.  heap[r] is the dict behind r.  The  *)
(* values of a row (str, int, bool, None) are immutable, so only the       *)
(* assignments item[...] = ... and current[...] = ... change an object.     *)
(***************************************************************************)
\* item = row: the same object under another name
CopyDict_alias(h, ref) == [heap |-> h, ref |-> ref]

\* dict(row): a new object with the fields of the one behind ref
CopyDict(h, ref) == [heap |-> Append(h, h[ref]), ref |-> Len(h) + 1]

\* lines 258-265: item = dict(row), the assignments to item, merged[key] = item
FirstSeen(merged, key, item) ==
  [heap |-> [item.heap EXCEPT ![item.ref] = NewItem(@)],
   merged |-> Append(merged, [key |-> key, ref |-> item.ref])]

\* lines 267-273: current = merged[key]; the set and merge_result_rows write to current
SeenAgain(h, merged, current, row) ==
  [heap |-> [h EXCEPT ![current] = MergeIntoItem(@, h[row])], merged |-> merged]

\* the reference merged[key]
RefOfKey(merged, key) == merged[CHOOSE i \in DOMAIN merged : merged[i].key = key].ref

\* one iteration of the exact pass on the object behind row
ObjExactStep(h, merged, row, key) ==
  IF \A i \in DOMAIN merged : merged[i].key # key
  THEN FirstSeen(merged, key, CopyDict(h, row))
  ELSE SeenAgain(h, merged, RefOfKey(merged, key), row)

\* for index, row in enumerate(results), from `index` on; s is [heap, merged]
RECURSIVE ObjExactPass(_, _, _)
ObjExactPass(s, refs, index) ==
  IF index >= Len(refs) THEN s
  ELSE ObjExactPass(ObjExactStep(s.heap, s.merged, refs[index + 1],
                                 DedupeKey(s.heap[refs[index + 1]], index)),
                    refs, index + 1)

\* lines 275-284: every item of merged gets its Source and SourceCount and
\* loses _source_set; output holds the items in insertion order
ObjOutput(s) ==
  [heap |-> [r \in DOMAIN s.heap |->
               IF \E i \in DOMAIN s.merged : s.merged[i].ref = r
               THEN FinishItem(s.heap[r]) ELSE s.heap[r]],
   refs |-> [i \in DOMAIN s.merged |-> s.merged[i].ref]]

\* lines 308-314: merge into the first accepted row that should_merge, else
\* accept row_copy
ObjFuzzyMerge(h, refined, row_copy, hits) ==
  IF hits = {} THEN [heap |-> h, refs |-> Append(refined, row_copy)]
  ELSE [heap |-> [h EXCEPT ![refined[CHOOSE j \in hits : \A k \in hits : j <= k]] =
                    merge_result_rows(@, h[row_copy])],
        refs |-> refined]

\* lines 291-314 for one row of output; row_copy is [heap, ref] after dict(row)
ObjFuzzyStep(refined, row_copy, threshold) ==
  ObjFuzzyMerge(row_copy.heap, refined, row_copy.ref,
                { i \in DOMAIN refined :
                    ShouldMerge(row_copy.heap[refined[i]], row_copy.heap[row_copy.ref],
                                threshold) })

\* the fuzzy pass over the references of output; s is [heap, refs] with refs = refined
RECURSIVE ObjFuzzyPass(_, _, _, _)
ObjFuzzyPass(s, output, next, threshold) ==
  IF next > Len(output) THEN s
  ELSE ObjFuzzyPass(ObjFuzzyStep(s.refs, CopyDict(s.heap, output[next]), threshold),
                    output, next + 1, threshold)

\* if not fuzzy_title: return output
ObjRefine(out, fuzzy, threshold) ==
  IF ~fuzzy THEN out
  ELSE ObjFuzzyPass([heap |-> out.heap, refs |-> <<>>], out.refs, 1, threshold)

\* deduplicate_results(results, ...) on the heap h, results holding the
\* references refs: the heap after the call and the references returned
ObjDeduplicate(h, refs, fuzzy, threshold) ==
  ObjRefine(ObjOutput(ObjExactPass([heap |-> h, merged |-> <<>>], refs, 0)),
            fuzzy, threshold)

\* the input list holds one object per row; results keeps the rows as they
\* were when the call was made
ObjectsInit ==
  /\ results \in SeqsUpTo(RowPool, MaxRows)
  /\ fuzzy_title \in BOOLEAN
  /\ fuzzy_threshold \in { Frac(p, 100) : p \in ThresholdPcts }
  /\ (~fuzzy_title => fuzzy_threshold = Frac(90, 100))
  /\ entries = <<>>
  /\ probe = NoProbe
  /\ dpc = "idle"
  /\ heap = results
  /\ arg = [i \in DOMAIN results |-> i]
  /\ ret = <<>>
  /\ hpc = "call"
  /\ FetchIdle
  /\ ViewIdle
  /\ PageIdle
  /\ ClientIdle
  /\ RequestIdle
  /\ CoreIdle
  /\ LoadIdle

ReturnObjects(out) ==
  /\ heap' = out.heap
  /\ ret' = out.refs

\* rows = deduplicate_results(raw_results, ...); the list passed is only read
DeduplicateObjects ==
  /\ hpc = "call"
  /\ ReturnObjects(ObjDeduplicate(heap, arg, fuzzy_title, fuzzy_threshold))
  /\ hpc' = "returned"
  /\ UNCHANGED arg
  /\ UNCHANGED dvars
  /\ UNCHANGED fvars
  /\ UNCHANGED mvars
  /\ UNCHANGED <<search_input, session>>
  /\ UNCHANGED ivars
  /\ UNCHANGED rvars
  /\ UNCHANGED cvars
  /\ UNCHANGED lvars

SpecObjects == ObjectsInit /\ [][DeduplicateObjects]_vars

\* the rows behind a list of references
ObjectsOf(refs) == [i \in DOMAIN refs |-> heap[refs[i]]]

\* C29: deduplicate_results, fuzzy on or off, leaves its input unchanged: the
\* input list holds the same objects in the same order, and every object it
\* holds has the fields and values it had before the call.
C29_InputUnchanged ==
  hpc = "returned" =>
    /\ arg = [i \in DOMAIN results |-> i]
    /\ ObjectsOf(arg) = results

\* a call with the fuzzy pass on that merged rows, returned the rows of
\* deduplicate_results, and handed out no object of the input list
C29_Witness ==
  /\ hpc = "returned"
  /\ fuzzy_title
  /\ Len(ret) < Len(arg)
  /\ ObjectsOf(ret) = deduplicate_results(results, fuzzy_title, fuzzy_threshold)
  /\ \A i \in DOMAIN ret : \A j \in DOMAIN arg : ret[i] # arg[j]


(***************************************************************************)
(* app_utils.py: load_persisted_state                                      *)
(***************************************************************************)
\* What is at STATE_FILE: nothing, something open() raises on (a directory, a
\* file without read permission), a text json.load raises on, or a JSON
\* document, given as the value json.load returns for it.
Missing == [t |-> "missing"]
Unreadable == [t |-> "unreadable"]
Garbled == [t |-> "garbled"]
Document(value) == [t |-> "json", v |-> value]

\* values of the field saved_searches in the documents explored
SavedValues ==
  {List(<<>>), List(<<PyInt(1)>>), EmptyDict, PyNone, PyInt(3), PyStr(<<"x">>)}

\* values of the field bookmarks in the documents explored
BookmarkValues ==
  {EmptyDict, Dict([k |-> PyStr(<<"t">>)]), List(<<>>), PyNone, PyInt(3), PyBool(TRUE)}

\* JSON objects with any of the two fields
ObjectDocuments ==
  { Dict([f \in fields |-> IF f = "saved_searches" THEN s ELSE b]) :
      fields \in SUBSET {"saved_searches", "bookmarks"}, s \in SavedValues, b \in BookmarkValues }

\* JSON documents whose top level is not an object
OtherDocuments == {List(<<>>), PyNone, PyInt(3), PyStr(<<"x">>), PyBool(TRUE)}

FileStates ==
  {Missing, Unreadable, Garbled} \cup { Document(d) : d \in ObjectDocuments \cup OtherDocuments }

Returns(value) == [t |-> "returned", v |-> value]
Raises(exception) == [t |-> "raised", v |-> exception]

\* line 134
default_state == Dict([saved_searches |-> List(<<>>), bookmarks |-> EmptyDict])

\* lines 146-150: a field of the wrong type is replaced by its default
LoadedState(saved_searches, bookmarks) ==
  Dict([saved_searches |-> IF saved_searches.t = "list" THEN saved_searches ELSE List(<<>>),
        bookmarks |-> IF bookmarks.t = "dict" THEN bookmarks ELSE EmptyDict])

\* load_persisted_state(), lines 133-150.  os.path.exists is true of a
\* directory and of an unreadable file; open() and json.load() are inside the
\* try, loaded.get is not, and only a dict has get.
load_persisted_state(file) ==
  IF file = Missing THEN Returns(default_state)
  ELSE IF file = Unreadable \/ file = Garbled THEN Returns(default_state)
  ELSE IF file.v.t # "dict" THEN Raises("AttributeError")
  ELSE Returns(LoadedState(GetOr(file.v.v, "saved_searches", List(<<>>)),
                           GetOr(file.v.v, "bookmarks", EmptyDict)))

LoadInit ==
  /\ state_file \in FileStates
  /\ loaded = PyNone
  /\ lpc = "call"
  /\ DedupeIdle
  /\ FetchIdle
  /\ ViewIdle
  /\ PageIdle
  /\ ClientIdle
  /\ RequestIdle
  /\ CoreIdle
  /\ HeapIdle

\* persisted = load_persisted_state() (app.py, line 62)
LoadPersistedState ==
  /\ lpc = "call"
  /\ loaded' = load_persisted_state(state_file)
  /\ lpc' = "done"
  /\ UNCHANGED state_file
  /\ UNCHANGED dvars
  /\ UNCHANGED fvars
  /\ UNCHANGED mvars
  /\ UNCHANGED <<search_input, session>>
  /\ UNCHANGED ivars
  /\ UNCHANGED rvars
  /\ UNCHANGED cvars
  /\ UNCHANGED hvars

SpecLoad == LoadInit /\ [][LoadPersistedState]_vars

\* C30: load_persisted_state never raises and returns a mapping whose
\* saved_searches is a list and whose bookmarks is a dict, whatever is at the
\* state file: nothing, something unreadable, invalid JSON, JSON whose top
\* level is not an object, or an object with wrongly typed fields.
C30_LoadNeverRaises ==
  lpc = "done" =>
    /\ loaded.t = "returned"
    /\ loaded.v.v.saved_searches.t = "list"
    /\ loaded.v.v.bookmarks.t = "dict"

====
